---------------------------- MODULE Spec2Model ----------------------------
(***************************************************************************)
(* Estimation engine of the agroforestry page                              *)
(* (src/src/pages/agroforestry_analysis.py): affected land, impact         *)
(* metrics, aggregation over the applied strategies, crop areas and        *)
(* self-sufficiency.                                                       *)
(*                                                                         *)
(* Numbers: Python floats are modelled as exact rationals <<n, d>> in      *)
(* lowest terms with d > 0, so every formula is computed with the same     *)
(* operations, in the same order, as the code, without rounding.           *)
(***************************************************************************)
EXTENDS Integers, Sequences, FiniteSets, TLC

(***************************************************************************)
(* Rational arithmetic                                                     *)
(***************************************************************************)
Abs(x) == IF x < 0 THEN -x ELSE x

RECURSIVE GCD(_, _)
GCD(a, b) == IF b = 0 THEN a ELSE GCD(b, a % b)

\* n/d in lowest terms (d # 0)
Q(n, d) ==
    IF d = 1 THEN <<n, 1>>
    ELSE LET s == IF d < 0 THEN -1 ELSE 1
             g == GCD(Abs(n), Abs(d))
         IN  <<(s * n) \div g, (s * d) \div g>>

Zero == <<0, 1>>
One == <<1, 1>>

Add(a, b) ==
    IF a[2] = b[2] THEN Q(a[1] + b[1], a[2])
    ELSE LET g == GCD(a[2], b[2])
         IN  Q(a[1] * (b[2] \div g) + b[1] * (a[2] \div g), (a[2] \div g) * b[2])

Mul(a, b) ==
    IF a[2] = 1 /\ b[2] = 1 THEN <<a[1] * b[1], 1>>
    ELSE LET g1 == GCD(Abs(a[1]), b[2])
             g2 == GCD(Abs(b[1]), a[2])
         IN  <<(a[1] \div g1) * (b[1] \div g2), (a[2] \div g2) * (b[2] \div g1)>>

\* a / b for b # 0
Div(a, b) ==
    Mul(a, IF b[1] < 0 THEN <<-b[2], -b[1]>> ELSE <<b[2], b[1]>>)

Lt(a, b) == a[1] * b[2] < b[1] * a[2]
Le(a, b) == a[1] * b[2] <= b[1] * a[2]

\* Python max(a, b) and min(a, b): the first argument wins a tie
Max(a, b) == IF Lt(a, b) THEN b ELSE a
Min(a, b) == IF Lt(b, a) THEN b ELSE a

Hundred == <<100, 1>>
Thousand == <<1000, 1>>

(***************************************************************************)
(* Python values that may be missing or non-numeric (dict.get results)     *)
(***************************************************************************)
None == [kind |-> "NoneType"]
Float(n, d) == [kind |-> "float", val |-> Q(n, d)]
Str(s) == [kind |-> "str", val |-> s]

\* isinstance(x, (int, float))
IsNumber(x) == x.kind = "float"

(***************************************************************************)
(* Affected land of one site                                               *)
(***************************************************************************)
\* land_cover_percent.get(land_type, 0) or 0
LandCoverGet(land_cover_percent, land_type) ==
    IF land_type \in DOMAIN land_cover_percent
    THEN land_cover_percent[land_type]
    ELSE Zero

RECURSIVE PercentSum(_, _)
PercentSum(land_cover_percent, types) ==
    IF types = <<>> THEN Zero
    ELSE Add(LandCoverGet(land_cover_percent, Head(types)),
             PercentSum(land_cover_percent, Tail(types)))

\* faulty variants: one of the two clamps forgotten
ClampBelowOnly(x) == Max(Zero, x)
ClampAboveOnly(x) == Min(One, x)

\* max(0.0, min(1.0, x))
Clamp01(x) == Max(Zero, Min(One, x))

_compute_affected_land_m2(site_props, affected_land_types) ==
    Mul(site_props.surface_m3,
        Clamp01(Div(PercentSum(site_props.land_cover_percent, affected_land_types),
                    Hundred)))

(***************************************************************************)
(* Impact metrics of one site, as previewed (compute_for_site) and as      *)
(* aggregated (aggregate_impacts.compute)                                  *)
(***************************************************************************)
Metrics(a, c, w, e, co2) ==
    [affected_m2 |-> a,
     total_cost_usd |-> c,
     saved_water_m3_per_year |-> w,
     saved_energy_kwh_per_year |-> e,
     carbon_sequestration_kgco2e_per_year |-> co2]

MetricNames ==
    {"affected_m2", "total_cost_usd", "saved_water_m3_per_year",
     "saved_energy_kwh_per_year", "carbon_sequestration_kgco2e_per_year"}

ZeroMetrics == Metrics(Zero, Zero, Zero, Zero, Zero)

AddMetrics(x, y) == [k \in MetricNames |-> Add(x[k], y[k])]

\* faulty variant: the energy saving taken from the area, not from the water saving
compute_for_site_energy_from_area(props, affected_types, unit_cost, water_l_per_m2, energy_kwh_per_m3, carbon_kgco2e_per_m2) ==
    LET affected_m2 == _compute_affected_land_m2(props, affected_types)
    IN  Metrics(affected_m2, Mul(affected_m2, unit_cost),
                Div(Mul(affected_m2, water_l_per_m2), Thousand),
                Mul(affected_m2, energy_kwh_per_m3),
                Mul(affected_m2, carbon_kgco2e_per_m2))

\* the preview's closure over affected_types and unit_cost of the selected strategy
compute_for_site(props, affected_types, unit_cost, water_l_per_m2, energy_kwh_per_m3, carbon_kgco2e_per_m2) ==
    LET affected_m2 == _compute_affected_land_m2(props, affected_types)
        total_cost == Mul(affected_m2, unit_cost)
        saved_water_m3 == Div(Mul(affected_m2, water_l_per_m2), Thousand)
        saved_energy_kwh == Mul(saved_water_m3, energy_kwh_per_m3)
        carbon_kgco2e == Mul(affected_m2, carbon_kgco2e_per_m2)
    IN  Metrics(affected_m2, total_cost, saved_water_m3, saved_energy_kwh, carbon_kgco2e)

\* faulty variant: the carbon taken from the saved water
compute_carbon_from_water(site_props, app) ==
    LET total_area_m2 == site_props.surface_m3
        percent_sum == PercentSum(site_props.land_cover_percent, app.affected_types)
        affected_m2 == Mul(total_area_m2, Clamp01(Div(percent_sum, Hundred)))
        saved_water_m3 == Div(Mul(affected_m2, app.assumptions.water_gain_l_per_m2), Thousand)
    IN  Metrics(affected_m2, Mul(affected_m2, app.unit_cost), saved_water_m3,
                Mul(saved_water_m3, app.assumptions.energy_saved_kwh_per_m3),
                Mul(saved_water_m3, app.assumptions.carbon_seq_kgco2e_per_m2))

\* aggregate_impacts' closure over one application's snapshot
compute(site_props, app) ==
    LET unit_cost_local == app.unit_cost
        water_l_per_m2 == app.assumptions.water_gain_l_per_m2
        energy_kwh_per_m3 == app.assumptions.energy_saved_kwh_per_m3
        carbon_kgco2e_per_m2 == app.assumptions.carbon_seq_kgco2e_per_m2
        total_area_m2 == site_props.surface_m3
        percent_sum == PercentSum(site_props.land_cover_percent, app.affected_types)
        fraction == Clamp01(Div(percent_sum, Hundred))
        affected_m2 == Mul(total_area_m2, fraction)
        total_cost == Mul(affected_m2, unit_cost_local)
        saved_water_m3 == Div(Mul(affected_m2, water_l_per_m2), Thousand)
        saved_energy_kwh == Mul(saved_water_m3, energy_kwh_per_m3)
        carbon_kgco2e == Mul(affected_m2, carbon_kgco2e_per_m2)
    IN  Metrics(affected_m2, total_cost, saved_water_m3, saved_energy_kwh, carbon_kgco2e)

\* faulty variants: the first site left out of "ALL"; every site taken when no site
\* has the target's name
sites_iter_skip_first(target, sites_props_all) ==
    IF target = "ALL" THEN Tail(sites_props_all)
    ELSE SelectSeq(sites_props_all, LAMBDA s : s.name = target)

sites_iter_or_all(target, sites_props_all) ==
    LET named == SelectSeq(sites_props_all, LAMBDA s : s.name = target)
    IN  IF target = "ALL" \/ named = <<>> THEN sites_props_all ELSE named

\* [s for s in sites_props_all if s.get("name") == target], or all of them for "ALL"
sites_iter(target, sites_props_all) ==
    IF target = "ALL" THEN sites_props_all
    ELSE SelectSeq(sites_props_all, LAMBDA s : s.name = target)

\* the inner loop: for sp in sites_iter: totals[...] += ...
RECURSIVE AddSites(_, _, _)
AddSites(totals, sites, app) ==
    IF sites = <<>> THEN totals
    ELSE AddSites(AddMetrics(totals, compute(Head(sites), app)), Tail(sites), app)

\* the outer loop: for app in applications
RECURSIVE AddApplications(_, _, _)

\* faulty variant: the totals start again from zero at every application
AddApplicationsFromZero(totals, applications, sites_props_all) ==
    IF applications = <<>> THEN totals
    ELSE AddApplications(
             AddSites(ZeroMetrics, sites_iter(Head(applications).target, sites_props_all),
                      Head(applications)),
             Tail(applications), sites_props_all)

AddApplications(totals, applications, sites_props_all) ==
    IF applications = <<>> THEN totals
    ELSE AddApplications(
             AddSites(totals, sites_iter(Head(applications).target, sites_props_all),
                      Head(applications)),
             Tail(applications), sites_props_all)

aggregate_impacts(applications, sites_props_all) ==
    AddApplications(ZeroMetrics, applications, sites_props_all)

\* effective_multiplier: product over apps of (1 + p/100)
RECURSIVE MultiplyApps(_, _)

\* faulty variant: the multiplier divided by (1 + p/100) at every application
DivideApps(effective_multiplier, applications) ==
    IF applications = <<>> THEN effective_multiplier
    ELSE MultiplyApps(
             Div(effective_multiplier,
                 Add(One, Div(Head(applications).assumptions.productivity_increase_percent,
                              Hundred))),
             Tail(applications))

MultiplyApps(effective_multiplier, applications) ==
    IF applications = <<>> THEN effective_multiplier
    ELSE MultiplyApps(
             Mul(effective_multiplier,
                 Add(One, Div(Head(applications).assumptions.productivity_increase_percent,
                              Hundred))),
             Tail(applications))

\* faulty variant: the increases added, 1 + (p1 + ... + pn)/100
RECURSIVE SumPercents(_)
SumPercents(applications) ==
    IF applications = <<>> THEN Zero
    ELSE Add(Head(applications).assumptions.productivity_increase_percent,
             SumPercents(Tail(applications)))

additive_productivity_multiplier(applications) ==
    Add(One, Div(SumPercents(applications), Hundred))

effective_productivity_multiplier(applications) == MultiplyApps(One, applications)

(***************************************************************************)
(* Crop areas (from green area and crop_distribution)                      *)
(***************************************************************************)
\* str.lower() on the names that occur in the data
Lower(name) ==
    CASE name \in {"Unused Greenland", "unused greenland", "UNUSED GREENLAND"}
             -> "unused greenland"
      [] name = "Maize" -> "maize"
      [] name = "Yam" -> "yam"
      [] name = "Cotton" -> "cotton"
      [] OTHER -> name

\* crop_to_area.get(name, 0.0)
AreaGet(crop_to_area, name) ==
    IF name \in DOMAIN crop_to_area THEN crop_to_area[name] ELSE Zero

\* for dist in site.crop_distribution: crop_to_area[name] = ... + green_area * share
RECURSIVE AddDistribution(_, _, _)

\* faulty variant: the areas keyed by the lower-cased name
AddDistributionLowerKeys(crop_to_area, dists, green_area_m2) ==
    IF dists = <<>> THEN crop_to_area
    ELSE LET name == Lower(Head(dists).name)
             added == Add(AreaGet(crop_to_area, name),
                          Mul(green_area_m2,
                              Clamp01(Div(Head(dists).green_share_percent, Hundred))))
         IN  IF name = "unused greenland"
             THEN AddDistribution(crop_to_area, Tail(dists), green_area_m2)
             ELSE AddDistribution(
                      [n \in DOMAIN crop_to_area \cup {name} |->
                          IF n = name THEN added ELSE crop_to_area[n]],
                      Tail(dists), green_area_m2)

AddDistribution(crop_to_area, dists, green_area_m2) ==
    IF dists = <<>> THEN crop_to_area
    ELSE LET dist == Head(dists)
             name == dist.name
             share == dist.green_share_percent
             added == Add(AreaGet(crop_to_area, name),
                          Mul(green_area_m2, Clamp01(Div(share, Hundred))))
         IN  IF Lower(name) = "unused greenland"
             THEN AddDistribution(crop_to_area, Tail(dists), green_area_m2)
             ELSE AddDistribution(
                      [n \in DOMAIN crop_to_area \cup {name} |->
                          IF n = name THEN added ELSE crop_to_area[n]],
                      Tail(dists), green_area_m2)

\* for site in lab.sites: skip the sites out of scope, add the others' crops
RECURSIVE AddLabSites(_, _, _)
AddLabSites(crop_to_area, sites, scope_site_name) ==
    IF sites = <<>> THEN crop_to_area
    ELSE LET site == Head(sites)
             total_area_m2 == site.surface_m3
             green_pct == LandCoverGet(site.land_cover_percent, "green")
             green_area_m2 == Mul(total_area_m2, Clamp01(Div(green_pct, Hundred)))
         IN  IF scope_site_name.kind = "str" /\ scope_site_name.val # ""
                /\ site.name # scope_site_name.val
             THEN AddLabSites(crop_to_area, Tail(sites), scope_site_name)
             ELSE AddLabSites(
                      AddDistribution(crop_to_area, site.crop_distribution, green_area_m2),
                      Tail(sites), scope_site_name)

EmptyDict == [n \in {} |-> Zero]

\* faulty variant: the scope ignored
_compute_crop_area_map_unscoped(lab, scope_site_name) ==
    AddLabSites(EmptyDict, lab.sites, None)

_compute_crop_area_map(lab, scope_site_name) ==
    AddLabSites(EmptyDict, lab.sites, scope_site_name)

\* wefe_analysis.calculate_self_sufficiency, lines 123-136: the same allocation over
\* every site of the lab
RECURSIVE WefeAddLabSites(_, _)
WefeAddLabSites(crop_to_area_m2, sites) ==
    IF sites = <<>> THEN crop_to_area_m2
    ELSE LET props == Head(sites)
             total_area_m2 == props.surface_m3
             green_pct == LandCoverGet(props.land_cover_percent, "green")
             green_area_m2 == Mul(total_area_m2, Clamp01(Div(green_pct, Hundred)))
         IN  WefeAddLabSites(
                 AddDistribution(crop_to_area_m2, props.crop_distribution, green_area_m2),
                 Tail(sites))

crop_to_area_m2(lab) == WefeAddLabSites(EmptyDict, lab.sites)

(***************************************************************************)
(* Self-sufficiency of one crop                                            *)
(***************************************************************************)
\* faulty variant: 52 weeks in a year
FiftyTwoWeeks == Q(52, 1)

\* 52.1429
WeeksPerYear == Q(521429, 10000)
MinWeeksPerCycle == Q(1, 1000000)
Seven == <<7, 1>>

\* what a comparison of None or of a str with a number does
TypeError == [kind |-> "TypeError"]

\* all(isinstance(x, (int, float)) and x > 0 for x in xs)
RECURSIVE AllPositiveNumbers(_)
AllPositiveNumbers(xs) ==
    IF xs = <<>> THEN TRUE
    ELSE IF ~IsNumber(Head(xs)) THEN FALSE
    ELSE IF ~Lt(Zero, Head(xs).val) THEN FALSE
    ELSE AllPositiveNumbers(Tail(xs))

\* faulty variant: the area is not checked, and max(0.0, ...) hides a negative one
_compute_self_sufficiency_any_area(crop_name, crop_info, area_m2, annual_consumption_kg, weekly_yield_g) ==
    IF ~IsNumber(annual_consumption_kg) THEN None
    ELSE IF Le(annual_consumption_kg.val, Zero) THEN None
    ELSE IF ~AllPositiveNumbers(<<crop_info.space_m2_per_seed, weekly_yield_g,
                                  crop_info.yield_period_days>>)
    THEN None
    ELSE [kind |-> "float",
          val |-> Max(Zero,
                      Mul(Div(Mul(Mul(Div(One, crop_info.space_m2_per_seed.val),
                                      Mul(Div(weekly_yield_g.val, Thousand), WeeksPerYear)),
                                  area_m2),
                              annual_consumption_kg.val),
                          Hundred))]

\* faulty variant: the spacing taken for the number of plants per m2
_compute_self_sufficiency_by_spacing(crop_name, crop_info, area_m2, annual_consumption_kg, weekly_yield_g) ==
    IF Le(area_m2, Zero) THEN None
    ELSE IF ~IsNumber(annual_consumption_kg) THEN None
    ELSE IF Le(annual_consumption_kg.val, Zero) THEN None
    ELSE IF ~AllPositiveNumbers(<<crop_info.space_m2_per_seed, weekly_yield_g,
                                  crop_info.yield_period_days>>)
    THEN None
    ELSE LET weeks_per_cycle == Div(crop_info.yield_period_days.val, Seven)
             cycles_per_year == Div(WeeksPerYear, Max(weeks_per_cycle, MinWeeksPerCycle))
         IN  [kind |-> "float",
              val |-> Max(Zero,
                          Mul(Div(Mul(Mul(crop_info.space_m2_per_seed.val,
                                          Mul(Mul(Div(weekly_yield_g.val, Thousand),
                                                  weeks_per_cycle),
                                              cycles_per_year)),
                                      area_m2),
                                  annual_consumption_kg.val),
                              Hundred))]

\* faulty variant: five cycles a year, whatever the length of the cycle
_compute_self_sufficiency_five_cycles(crop_name, crop_info, area_m2, annual_consumption_kg, weekly_yield_g) ==
    IF Le(area_m2, Zero) THEN None
    ELSE IF ~IsNumber(annual_consumption_kg) THEN None
    ELSE IF Le(annual_consumption_kg.val, Zero) THEN None
    ELSE LET space == crop_info.space_m2_per_seed
             yield_days == crop_info.yield_period_days
         IN  IF ~AllPositiveNumbers(<<space, weekly_yield_g, yield_days>>)
             THEN None
             ELSE LET plants_per_m2 == Div(One, space.val)
                      weeks_per_cycle == Div(yield_days.val, Seven)
                      cycles_per_year == Q(5, 1)
                      annual_yield_per_plant_kg ==
                          Mul(Mul(Div(weekly_yield_g.val, Thousand), weeks_per_cycle),
                              cycles_per_year)
                      annual_yield_per_m2_kg == Mul(plants_per_m2, annual_yield_per_plant_kg)
                      total_production_kg == Mul(annual_yield_per_m2_kg, area_m2)
                  IN  [kind |-> "float",
                       val |-> Max(Zero,
                                   Mul(Div(total_production_kg, annual_consumption_kg.val),
                                       Hundred))]

\* area_m2 is a float (the callers convert it); the other arguments are whatever
\* dict.get returned.  The result is None, a float, or the exception raised.
_compute_self_sufficiency(crop_name, crop_info, area_m2, annual_consumption_kg, weekly_yield_g) ==
    IF Le(area_m2, Zero) THEN None
    ELSE IF ~IsNumber(annual_consumption_kg) THEN None
    ELSE IF Le(annual_consumption_kg.val, Zero) THEN None
    ELSE LET space == crop_info.space_m2_per_seed
             yield_days == crop_info.yield_period_days
         IN  IF ~AllPositiveNumbers(<<space, weekly_yield_g, yield_days>>)
             THEN None
             ELSE LET plants_per_m2 == Div(One, space.val)
                      weeks_per_cycle == Div(yield_days.val, Seven)
                      cycles_per_year ==
                          Div(WeeksPerYear, Max(weeks_per_cycle, MinWeeksPerCycle))
                      annual_yield_per_plant_kg ==
                          Mul(Mul(Div(weekly_yield_g.val, Thousand), weeks_per_cycle),
                              cycles_per_year)
                      annual_yield_per_m2_kg == Mul(plants_per_m2, annual_yield_per_plant_kg)
                      total_production_kg == Mul(annual_yield_per_m2_kg, area_m2)
                  IN  [kind |-> "float",
                       val |-> Max(Zero,
                                   Mul(Div(total_production_kg, annual_consumption_kg.val),
                                       Hundred))]

(***************************************************************************)
(* Data files read on every render                                         *)
(***************************************************************************)
\* data/agroforestry_strategies.json
Strategies ==
    << [key |-> "silvopasture", name |-> "Silvopasture",
        affected_land_types |-> <<"green">>, cost_per_sqm_usd |-> Q(2, 1)],
       [key |-> "riparian_buffer", name |-> "Riparian buffers",
        affected_land_types |-> <<"mixed", "green", "cropland">>,
        cost_per_sqm_usd |-> Q(3, 2)] >>

StrategyNames == {Strategies[i].name : i \in DOMAIN Strategies}

\* strategy_name_to_obj.get(selected_strategy_name, {})
StrategyNamed(n) == CHOOSE st \in {Strategies[i] : i \in DOMAIN Strategies} : st.name = n

SiteA ==
    [name |-> "Site A", surface_m3 |-> Q(1000, 1),
     land_cover_percent |->
         [residential |-> Q(20, 1), mixed |-> Q(30, 1), green |-> Q(50, 1),
          water |-> Zero],
     crop_distribution |->
         << [name |-> "Maize", green_share_percent |-> Q(40, 1)],
            [name |-> "Yam", green_share_percent |-> Q(20, 1)],
            [name |-> "Unused Greenland", green_share_percent |-> Q(40, 1)] >>]

\* percentages that sum to more than 100 (not enforced by the data)
SiteB ==
    [name |-> "Site B", surface_m3 |-> Q(2500, 1),
     land_cover_percent |->
         [residential |-> Q(30, 1), mixed |-> Q(45, 1), green |-> Q(60, 1)],
     crop_distribution |->
         << [name |-> "Maize", green_share_percent |-> Q(150, 1)],
            [name |-> "unused greenland", green_share_percent |-> Q(10, 1)] >>]

\* the two sites after an edit of the data files; one percentage is negative
SiteA2 ==
    [name |-> "Site A", surface_m3 |-> Q(800, 1),
     land_cover_percent |-> [mixed |-> Q(10, 1), green |-> Q(25, 1)],
     crop_distribution |->
         << [name |-> "Maize", green_share_percent |-> Q(50, 1)] >>]

SiteB2 ==
    [name |-> "Site B", surface_m3 |-> Q(400, 1),
     land_cover_percent |-> [mixed |-> Q(25, 1), green |-> Q(-10, 1)],
     crop_distribution |-> << >>]

\* The versions of data/geo/damongo_sites.geojson (features with role = "site") and of
\* data/livinglabs/ghana_damango/lab.json that a render may find on disk: the full
\* data, and an edit after which the site list lacks Site A and the lab lacks Site B.
DataSets ==
    << [sites_props |-> <<SiteA, SiteB>>, lab |-> [sites |-> <<SiteA, SiteB>>]],
       [sites_props |-> <<SiteB2>>, lab |-> [sites |-> <<SiteA2>>]] >>

\* the values the three number inputs take: (water L/m2, energy kWh/m3, carbon kg/m2)
AssumptionChoices ==
    { [water_gain_l_per_m2 |-> Q(20, 1), energy_saved_kwh_per_m3 |-> Q(1, 5),
       carbon_seq_kgco2e_per_m2 |-> Q(1, 2)],
      [water_gain_l_per_m2 |-> Zero, energy_saved_kwh_per_m3 |-> Q(5, 1),
       carbon_seq_kgco2e_per_m2 |-> Q(20, 1)] }

\* data/crops.json: the groups "food" and "non-food"
CropsDoc ==
    [food |->
         << [name |-> "Maize", space_m2_per_seed |-> Float(51, 1),
             average_yield_g_per_week |-> Float(1000, 1),
             yield_period_days |-> Float(70, 1)],
            [name |-> "Yam", space_m2_per_seed |-> Float(1, 1),
             average_yield_g_per_week |-> Float(500, 1),
             yield_period_days |-> Float(240, 1)] >>,
     nonfood |->
         << [name |-> "Cotton", space_m2_per_seed |-> Float(1, 2),
             average_yield_g_per_week |-> None,
             yield_period_days |-> Float(150, 1)] >>]

\* data/livinglabs/ghana_damango/lab_resources_info.json: tonnes per year
Resources ==
    [food |-> << [name |-> "Maize", annual_consumption |-> Float(1, 10)],
                 [name |-> "Yam", annual_consumption |-> Float(2, 1)],
                 [name |-> "Cotton", annual_consumption |-> Str("n/a")] >>]

\* value= of the three number inputs
DefaultAssumptions ==
    [water_gain_l_per_m2 |-> Q(20, 1), energy_saved_kwh_per_m3 |-> Q(1, 5),
     carbon_seq_kgco2e_per_m2 |-> Q(1, 2)]

\* the values random.uniform(5.0, 100.0) is taken to return
ProductivityDraws == {Q(10, 1), Q(20, 1)}

Crops == {"Maize", "Yam"}

(***************************************************************************)
(* State                                                                   *)
(***************************************************************************)
VARIABLES
    agro_applied_strategies,  \* st.session_state.agro_applied_strategies
    wefe_crop_enabled,        \* st.session_state.wefe_crop_enabled
    data,                     \* the data files on disk: an index into DataSets
    call,                     \* a function of the engine called on its own, and its result
    selection,                \* the values held by the selectboxes and number inputs
    wefe_crop_self_sufficiency, \* st.session_state.wefe_crop_self_sufficiency
    wefe_water_shares,        \* st.session_state.wefe_water_shares
    wefe_energy_shares,       \* st.session_state.wefe_energy_shares
    wefe_shown,               \* the validation messages of the last WEFE render
    files                     \* which data files a render can load

\* the state written by the WEFE tab only
wefe_state == <<wefe_crop_self_sufficiency, wefe_water_shares, wefe_energy_shares, wefe_shown>>

vars == <<agro_applied_strategies, wefe_crop_enabled, data, call, selection, wefe_state, files>>

sites_props == DataSets[data].sites_props
lab == DataSets[data].lab

\* _load_damongo_sites_full() of data set d
SitesOf(d) == DataSets[d].sites_props

AllSites == "Apply to all sites"

\* site_options = ["Apply to all sites"] + site_names
site_options(props) == {AllSites} \cup {props[i].name : i \in DOMAIN props}

\* every option the target selectbox can show, over all data sets
TargetOptions == UNION {site_options(SitesOf(d)) : d \in DOMAIN DataSets}

MaxApps == 2

(***************************************************************************)
(* One run of render_agroforestry_analysis                                 *)
(***************************************************************************)
\* sum(r[k] for r in results) over results = [compute_for_site(props, ...) for props in ...]
RECURSIVE SumResults(_, _, _, _)
SumResults(props, types, cost, a) ==
    IF props = <<>> THEN ZeroMetrics
    ELSE AddMetrics(compute_for_site(Head(props), types, cost, a.water_gain_l_per_m2,
                                     a.energy_saved_kwh_per_m3,
                                     a.carbon_seq_kgco2e_per_m2),
                    SumResults(Tail(props), types, cost, a))

\* next((p for p in sites_props if p.get("name") == target), None)
FirstNamed(props, target) ==
    LET found == SelectSeq(props, LAMBDA q : q.name = target)
    IN  IF found = <<>> THEN None ELSE [kind |-> "dict", val |-> Head(found)]

\* faulty variant: the scope of a selected site lost (scope_site_name None)
PreviewWithoutScope(target, props, types, cost, a) ==
    IF target = AllSites
    THEN [shown |-> [kind |-> "dict", val |-> SumResults(props, types, cost, a)],
          scope_label |-> "all sites", scope_site_name |-> None]
    ELSE LET site_props == FirstNamed(props, target)
         IN  IF site_props = None
             THEN [shown |-> None, scope_label |-> target, scope_site_name |-> None]
             ELSE [shown |-> [kind |-> "dict",
                              val |-> compute_for_site(site_props.val, types, cost,
                                                       a.water_gain_l_per_m2,
                                                       a.energy_saved_kwh_per_m3,
                                                       a.carbon_seq_kgco2e_per_m2)],
                   scope_label |-> target, scope_site_name |-> None]

\* The preview of the current selection: the metrics shown (None when nothing is
\* rendered), scope_label and scope_site_name.
Preview(target, props, types, cost, a) ==
    IF target = AllSites
    THEN [shown |-> [kind |-> "dict", val |-> SumResults(props, types, cost, a)],
          scope_label |-> "all sites", scope_site_name |-> None]
    ELSE LET site_props == FirstNamed(props, target)
         IN  IF site_props = None
             THEN [shown |-> None, scope_label |-> target, scope_site_name |-> None]
             ELSE [shown |-> [kind |-> "dict",
                              val |-> compute_for_site(site_props.val, types, cost,
                                                       a.water_gain_l_per_m2,
                                                       a.energy_saved_kwh_per_m3,
                                                       a.carbon_seq_kgco2e_per_m2)],
                   scope_label |-> target, scope_site_name |-> Str(target)]

\* [name for name, enabled in enabled_map.items() if enabled]
selected_crops == {c \in DOMAIN wefe_crop_enabled : wefe_crop_enabled[c]}

\* faulty variant: the assumptions' defaults stored in place of the inputs' values
NewApplicationDefaults(strategy, scope_site_name, types, cost, a, p) ==
    [strategy_key |-> strategy.key,
     strategy_name |-> strategy.name,
     target |-> IF scope_site_name = None THEN "ALL" ELSE scope_site_name.val,
     affected_types |-> types,
     unit_cost |-> cost,
     assumptions |->
         [water_gain_l_per_m2 |-> DefaultAssumptions.water_gain_l_per_m2,
          energy_saved_kwh_per_m3 |-> DefaultAssumptions.energy_saved_kwh_per_m3,
          carbon_seq_kgco2e_per_m2 |-> DefaultAssumptions.carbon_seq_kgco2e_per_m2,
          productivity_increase_percent |-> p]]

\* the record the Apply button appends
NewApplication(strategy, scope_site_name, types, cost, a, p) ==
    [strategy_key |-> strategy.key,
     strategy_name |-> strategy.name,
     target |-> IF scope_site_name = None THEN "ALL" ELSE scope_site_name.val,
     affected_types |-> types,
     unit_cost |-> cost,
     assumptions |->
         [water_gain_l_per_m2 |-> a.water_gain_l_per_m2,
          energy_saved_kwh_per_m3 |-> a.energy_saved_kwh_per_m3,
          carbon_seq_kgco2e_per_m2 |-> a.carbon_seq_kgco2e_per_m2,
          productivity_increase_percent |-> p]]

\* faulty variant: list.pop(), whatever the index
PopLast(list, idx) == SubSeq(list, 1, Len(list) - 1)

\* list.pop(idx), 0-based
Pop(list, idx) == SubSeq(list, 1, idx) \o SubSeq(list, idx + 2, Len(list))

\* agg_totals of the run
agg_totals == aggregate_impacts(agro_applied_strategies, sites_props)

(***************************************************************************)
(* The production tables                                                   *)
(***************************************************************************)
\* crop_info_map[c["name"]] = c, for the groups "food" and "non-food"
RECURSIVE AddCropInfo(_, _)
AddCropInfo(crop_info_map, crops) ==
    IF crops = <<>> THEN crop_info_map
    ELSE AddCropInfo([n \in DOMAIN crop_info_map \cup {Head(crops).name} |->
                         IF n = Head(crops).name THEN Head(crops) ELSE crop_info_map[n]],
                     Tail(crops))

_load_crop_info_map == AddCropInfo(AddCropInfo(<<>>, CropsDoc.food), CropsDoc.nonfood)

\* crop_info_map.get(crop, {}), with the fields read from it by .get
NoInfo ==
    [name |-> None, space_m2_per_seed |-> None, average_yield_g_per_week |-> None,
     yield_period_days |-> None]

InfoGet(crop_info_map, crop) ==
    IF crop \in DOMAIN crop_info_map THEN crop_info_map[crop] ELSE NoInfo

\* consumption_map[entry["name"]] = float(entry["annual_consumption"]) * 1000.0, for
\* the entries whose annual_consumption is a number
RECURSIVE AddConsumption(_, _)
AddConsumption(consumption_map, food) ==
    IF food = <<>> THEN consumption_map
    ELSE LET entry == Head(food)
         IN  IF IsNumber(entry.annual_consumption)
             THEN AddConsumption(
                      [n \in DOMAIN consumption_map \cup {entry.name} |->
                          IF n = entry.name
                          THEN [kind |-> "float",
                                val |-> Mul(entry.annual_consumption.val, Thousand)]
                          ELSE consumption_map[n]],
                      Tail(food))
             ELSE AddConsumption(consumption_map, Tail(food))

consumption_map == AddConsumption(<<>>, Resources.food)

\* consumption_map.get(crop)
ConsumptionGet(crop) ==
    IF crop \in DOMAIN consumption_map THEN consumption_map[crop] ELSE None

\* (weekly_yield_g * factor) if isinstance(weekly_yield_g, (int, float)) else None
\* faulty variant: the weekly yield passed on as it is
new_weekly_yield_g_unadjusted(weekly_yield_g, factor) ==
    IF IsNumber(weekly_yield_g)
    THEN [kind |-> "float", val |-> weekly_yield_g.val]
    ELSE None

new_weekly_yield_g(weekly_yield_g, factor) ==
    IF IsNumber(weekly_yield_g)
    THEN [kind |-> "float", val |-> Mul(weekly_yield_g.val, factor)]
    ELSE None

\* x or 0.0: None and 0.0 are both falsy
OrZero(x) == IF x = None \/ x.val = Zero THEN Zero ELSE x.val

\* round(x, 1): the nearest tenth, a tie going to the even digit
Round1(x) ==
    LET whole == x[1] \div x[2]
        rest == 20 * (x[1] % x[2])
        low == 20 * whole + (rest \div x[2])
        k == (low + 1) \div 2
    IN  IF rest % x[2] = 0 /\ low % 2 = 1 /\ k % 2 = 1 THEN Q(k - 1, 10) ELSE Q(k, 10)

\* One row of the preview's production table (lines 331-345): the values computed
\* for the crop (baseline_ss, new_ss) and the three figures put in the row.
preview_row(crop, crop_area_map, increase_pct) ==
    LET info == InfoGet(_load_crop_info_map, crop)
        area_m2 == AreaGet(crop_area_map, crop)
        consumption_kg == ConsumptionGet(crop)
        weekly_yield_g == info.average_yield_g_per_week
        baseline_ss == _compute_self_sufficiency(crop, info, area_m2, consumption_kg,
                                                 weekly_yield_g)
        new_ss == _compute_self_sufficiency(
                      crop, info, area_m2, consumption_kg,
                      new_weekly_yield_g(weekly_yield_g,
                                         Add(One, Div(increase_pct, Hundred))))
    IN  [Crop |-> crop,
         baseline_ss |-> baseline_ss,
         new_ss |-> new_ss,
         increase_shown |-> Round1(increase_pct),
         starting_shown |-> Round1(OrZero(baseline_ss)),
         new_shown |-> Round1(OrZero(new_ss))]

\* One row of the aggregated production table (lines 465-477).
aggregated_row(crop, crop_area_map_all, effective_multiplier) ==
    LET info == InfoGet(_load_crop_info_map, crop)
        area_m2 == AreaGet(crop_area_map_all, crop)
        consumption_kg == ConsumptionGet(crop)
        weekly_yield_g == info.average_yield_g_per_week
        baseline_ss == _compute_self_sufficiency(crop, info, area_m2, consumption_kg,
                                                 weekly_yield_g)
        new_ss == _compute_self_sufficiency(
                      crop, info, area_m2, consumption_kg,
                      new_weekly_yield_g(weekly_yield_g, effective_multiplier))
    IN  [Crop |-> crop,
         baseline_ss |-> baseline_ss,
         new_ss |-> new_ss,
         increase_shown |-> Round1(Mul(Add(effective_multiplier, Q(-1, 1)), Hundred)),
         starting_shown |-> Round1(OrZero(baseline_ss)),
         new_shown |-> Round1(OrZero(new_ss))]

\* faulty variant: the crop areas of the scope of the last application, as in the
\* preview, in place of the areas over all sites
aggregated_rows_scoped(applications, lab_, enabled_map) ==
    LET effective_multiplier == effective_productivity_multiplier(applications)
        last == applications[Len(applications)].target
        crop_area_map == _compute_crop_area_map(lab_, IF last = "ALL" THEN None
                                                      ELSE Str(last))
    IN  IF applications = <<>> THEN <<>>
        ELSE [crop \in {c \in DOMAIN enabled_map : enabled_map[c]} |->
                 aggregated_row(crop, crop_area_map, effective_multiplier)]

\* The aggregated production table of a run: a row for each selected crop; no table
\* when no strategy is applied (the render returns at line 377).
aggregated_rows(applications, lab_, enabled_map) ==
    LET effective_multiplier == effective_productivity_multiplier(applications)
        crop_area_map_all == _compute_crop_area_map(lab_, None)
        selected_crops_all == {c \in DOMAIN enabled_map : enabled_map[c]}
    IN  IF applications = <<>> THEN <<>>
        ELSE [crop \in selected_crops_all |->
                 aggregated_row(crop, crop_area_map_all, effective_multiplier)]

\* The preview's production table for the scope of the selected target and the
\* increase drawn for each crop.
preview_rows(scope_site_name, lab_, enabled_map, increase_of) ==
    LET crop_area_map == _compute_crop_area_map(lab_, scope_site_name)
    IN  [crop \in {c \in DOMAIN enabled_map : enabled_map[c]} |->
            preview_row(crop, crop_area_map, increase_of[crop])]

(***************************************************************************)
(* One run of render_wefe_analysis                                         *)
(***************************************************************************)
\* d[k] = v
SetItem(d, k, v) == [n \in DOMAIN d \cup {k} |-> IF n = k THEN v ELSE d[n]]

\* st.session_state.wefe_crop_enabled.get(name, False)
EnabledGet(enabled_map, name) ==
    IF name \in DOMAIN enabled_map THEN enabled_map[name] ELSE FALSE

\* st.session_state.wefe_crop_self_sufficiency.get(name, 0)
StoredGet(stored, name) == IF name \in DOMAIN stored THEN stored[name] ELSE 0

\* round(x) of a float x >= 0: the nearest integer, a tie going to the even one
Round0(x) ==
    LET whole == x[1] \div x[2]
        twice == 2 * (x[1] % x[2])
    IN  IF twice < x[2] THEN whole
        ELSE IF twice > x[2] THEN whole + 1
        ELSE IF whole % 2 = 0 THEN whole ELSE whole + 1

\* faulty variant: the rounded default stored without the cap at 100
PrefillUncapped(default_percent) == Round0(default_percent)

\* int(min(100, round(default_percent)))
Prefill(default_percent) ==
    LET rounded == Round0(default_percent) IN IF rounded < 100 THEN rounded ELSE 100

\* crop_info_map of render_wefe_analysis: the dicts of "food" and "non-food" by name
wefe_crop_info_map == AddCropInfo(AddCropInfo(<<>>, CropsDoc.food), CropsDoc.nonfood)

\* food_names, non_food_names
food_names == [i \in DOMAIN CropsDoc.food |-> CropsDoc.food[i].name]
non_food_names == [i \in DOMAIN CropsDoc.nonfood |-> CropsDoc.nonfood[i].name]

\* crop_to_consumption_kg_per_year: tonnes per year to kg per year
crop_to_consumption_kg_per_year(resources) == AddConsumption(<<>>, resources.food)

NotApplicable == [default_percent |-> None, status |-> "n/a"]

\* faulty variant: a crop that grows nowhere gets a default of 0 %
crop_default_without_area(crop_name, info, enabled_map, areas, consumptions) ==
    LET is_enabled == EnabledGet(enabled_map, crop_name)
        area_m2 == AreaGet(areas, crop_name)
        consumption_kg == IF crop_name \in DOMAIN consumptions
                          THEN consumptions[crop_name] ELSE None
        space == info.space_m2_per_seed
        weekly_yield_g == info.average_yield_g_per_week
        yield_days == info.yield_period_days
    IN  IF ~is_enabled THEN NotApplicable
        ELSE IF ~IsNumber(consumption_kg) THEN NotApplicable
        ELSE IF Le(consumption_kg.val, Zero) THEN NotApplicable
        ELSE IF ~AllPositiveNumbers(<<space, weekly_yield_g, yield_days>>)
        THEN NotApplicable
        ELSE LET plants_per_m2 == Div(One, space.val)
                 weeks_per_cycle == Div(yield_days.val, Seven)
                 cycles_per_year ==
                     Div(WeeksPerYear, Max(weeks_per_cycle, MinWeeksPerCycle))
                 annual_yield_per_plant_kg ==
                     Mul(Mul(Div(weekly_yield_g.val, Thousand), weeks_per_cycle),
                         cycles_per_year)
                 annual_yield_per_m2_kg == Mul(plants_per_m2, annual_yield_per_plant_kg)
                 total_production_kg == Mul(annual_yield_per_m2_kg, area_m2)
                 default_percent ==
                     Max(Zero, Mul(Div(total_production_kg, consumption_kg.val), Hundred))
             IN  [default_percent |-> [kind |-> "float", val |-> default_percent],
                  status |-> "computed"]

\* the entry of result for one crop of crop_info_map
crop_default(crop_name, info, enabled_map, areas, consumptions) ==
    LET is_enabled == EnabledGet(enabled_map, crop_name)
        area_m2 == AreaGet(areas, crop_name)
        consumption_kg == IF crop_name \in DOMAIN consumptions
                          THEN consumptions[crop_name] ELSE None
        space == info.space_m2_per_seed
        weekly_yield_g == info.average_yield_g_per_week
        yield_days == info.yield_period_days
    IN  IF ~is_enabled THEN NotApplicable
        ELSE IF Le(area_m2, Zero) THEN NotApplicable
        ELSE IF ~IsNumber(consumption_kg) THEN NotApplicable
        ELSE IF Le(consumption_kg.val, Zero) THEN NotApplicable
        ELSE IF ~AllPositiveNumbers(<<space, weekly_yield_g, yield_days>>)
        THEN NotApplicable
        ELSE LET plants_per_m2 == Div(One, space.val)
                 weeks_per_cycle == Div(yield_days.val, Seven)
                 cycles_per_year ==
                     Div(WeeksPerYear, Max(weeks_per_cycle, MinWeeksPerCycle))
                 annual_yield_per_plant_kg ==
                     Mul(Mul(Div(weekly_yield_g.val, Thousand), weeks_per_cycle),
                         cycles_per_year)
                 annual_yield_per_m2_kg == Mul(plants_per_m2, annual_yield_per_plant_kg)
                 total_production_kg == Mul(annual_yield_per_m2_kg, area_m2)
                 default_percent ==
                     Max(Zero, Mul(Div(total_production_kg, consumption_kg.val), Hundred))
             IN  [default_percent |-> [kind |-> "float", val |-> default_percent],
                  status |-> "computed"]

\* faulty variant: the prefill written over whatever is stored
prefilled_always(stored, crop_name, entry) ==
    IF entry.status = "computed"
    THEN SetItem(stored, crop_name, Prefill(entry.default_percent.val))
    ELSE stored

\* "Prefill session default if not set": lines 169-171, reached for a computed entry
prefilled(stored, crop_name, entry) ==
    IF entry.status = "computed"
       /\ (crop_name \notin DOMAIN stored \/ StoredGet(stored, crop_name) = 0)
    THEN SetItem(stored, crop_name, Prefill(entry.default_percent.val))
    ELSE stored

\* the loop over crop_info_map.items(), crop after crop
RECURSIVE AddDefaults(_, _, _, _, _, _)
AddDefaults(acc, crop_names, crop_info_map, enabled_map, areas, consumptions) ==
    IF crop_names = <<>> THEN acc
    ELSE LET crop_name == Head(crop_names)
             entry == crop_default(crop_name, crop_info_map[crop_name], enabled_map,
                                   areas, consumptions)
         IN  AddDefaults([result |-> SetItem(acc.result, crop_name, entry),
                          wefe_crop_self_sufficiency |->
                              prefilled(acc.wefe_crop_self_sufficiency, crop_name, entry)],
                         Tail(crop_names), crop_info_map, enabled_map, areas, consumptions)

\* calculate_self_sufficiency: the map returned, and wefe_crop_self_sufficiency after
\* the call.  lab_ and resources are None when the files did not load.
calculate_self_sufficiency(crop_info_map, lab_, resources, enabled_map, stored) ==
    IF lab_ = None \/ resources = None
    THEN [result |-> <<>>, wefe_crop_self_sufficiency |-> stored]
    ELSE AddDefaults([result |-> <<>>, wefe_crop_self_sufficiency |-> stored],
                     food_names \o non_food_names, crop_info_map, enabled_map,
                     crop_to_area_m2(lab_), crop_to_consumption_kg_per_year(resources))

\* crops_in_distribution: the names with a positive share in some site, unused green
\* land left out
crops_in_distribution(lab_) ==
    UNION {{site.crop_distribution[j].name : j \in
                {k \in DOMAIN site.crop_distribution :
                    /\ site.crop_distribution[k].name # ""
                    /\ Lower(site.crop_distribution[k].name) # "unused greenland"
                    /\ site.crop_distribution[k].green_share_percent[1] > 0}} :
           site \in {lab_.sites[i] : i \in DOMAIN lab_.sites}}

\* faulty variant: every crop of the distribution enabled at every render
default_enable_every_render(lab_, names, enabled_map) ==
    IF lab_ = None THEN enabled_map
    ELSE LET fresh == {names[i] : i \in DOMAIN names} \cap crops_in_distribution(lab_)
         IN  [n \in DOMAIN enabled_map \cup fresh |->
                 IF n \in fresh THEN TRUE ELSE enabled_map[n]]

\* "Default-enable crops that appear in crop_distribution" (lines 207-223); lab_ is
\* None when lab.json did not load, and the step is skipped
default_enable(lab_, names, enabled_map) ==
    IF lab_ = None THEN enabled_map
    ELSE LET fresh == ({names[i] : i \in DOMAIN names} \cap crops_in_distribution(lab_))
                          \ DOMAIN enabled_map
         IN  [n \in DOMAIN enabled_map \cup fresh |->
                 IF n \in fresh THEN TRUE ELSE enabled_map[n]]

\* What the user did to the widgets of the WEFE tab before a run: at most one of a
\* click on a crop's checkbox, a value typed in a crop's number input, a value typed
\* in a water or energy input.
NoEvent == [kind |-> "none"]
Click(name) == [kind |-> "click", name |-> name]
TypePercent(name, value) == [kind |-> "percent", name |-> name, value |-> value]
TypeWater(src, value) == [kind |-> "water", name |-> src, value |-> value]
TypeEnergy(src, value) == [kind |-> "energy", name |-> src, value |-> value]

\* _render_crop_group: the checkbox returns the stored flag unless clicked, the number
\* input returns its value= argument unless a value was typed in it
RECURSIVE _render_crop_group(_, _, _)
_render_crop_group(names, session, event) ==
    IF names = <<>> THEN session
    ELSE LET name == Head(names)
             current_value == StoredGet(session.wefe_crop_self_sufficiency, name)
             enabled == EnabledGet(session.wefe_crop_enabled, name)
             enabled_new == IF event = Click(name) THEN ~enabled ELSE enabled
             new_val == IF event.kind = "percent" /\ event.name = name
                        THEN event.value ELSE current_value
         IN  _render_crop_group(
                 Tail(names),
                 [wefe_crop_enabled |-> SetItem(session.wefe_crop_enabled, name, enabled_new),
                  wefe_crop_self_sufficiency |->
                      IF enabled_new
                      THEN SetItem(session.wefe_crop_self_sufficiency, name, new_val)
                      ELSE session.wefe_crop_self_sufficiency],
                 event)

WaterSources == <<"groundwater", "treated_wastewater", "surface_water">>
EnergySources == <<"gasoline", "hydropower", "wind", "solar", "diesel">>

\* for src in sources: new_val = st.number_input(...); if new_val != val: shares[src] = new_val
RECURSIVE StoreShares(_, _, _, _)
StoreShares(shares, sources, kind, event) ==
    IF sources = <<>> THEN shares
    ELSE LET src == Head(sources)
             val == shares[src]
             new_val == IF event.kind = kind /\ event.name = src THEN event.value ELSE val
         IN  StoreShares(IF new_val # val THEN SetItem(shares, src, new_val) ELSE shares,
                         Tail(sources), kind, event)

\* sum(int(v) for v in shares.values())
RECURSIVE SumShares(_, _)
SumShares(shares, sources) ==
    IF sources = <<>> THEN 0 ELSE shares[Head(sources)] + SumShares(shares, Tail(sources))

\* "Validate total equals 100": st.error above 100, st.warning below, nothing at 100
Validation(total) ==
    IF total > 100 THEN [level |-> "error", total |-> total]
    ELSE IF total # 100 THEN [level |-> "warning", total |-> total]
    ELSE None

\* faulty variant: shares that do not total 100 are set back to zero
shares_section_resetting(shares, sources, kind, event) ==
    LET stored == StoreShares(shares, sources, kind, event)
        total == SumShares(stored, sources)
    IN  [shares |-> IF total # 100 THEN [src \in DOMAIN stored |-> 0] ELSE stored,
         message |-> Validation(total)]

\* one container of shares: the inputs stored, then the total validated
shares_section(shares, sources, kind, event) ==
    LET stored == StoreShares(shares, sources, kind, event)
    IN  [shares |-> stored, message |-> Validation(SumShares(stored, sources))]

\* render_wefe_analysis: the session state after the run and the messages shown.
\* lab_ and resources are what the files gave, None when they did not load.
render_wefe_analysis(session, lab_, resources, event) ==
    LET names == food_names \o non_food_names
        enabled_map == default_enable(lab_, names, session.wefe_crop_enabled)
        defaults == calculate_self_sufficiency(wefe_crop_info_map, lab_, resources,
                                               enabled_map,
                                               session.wefe_crop_self_sufficiency)
        crops == _render_crop_group(
                     names,
                     [wefe_crop_enabled |-> enabled_map,
                      wefe_crop_self_sufficiency |-> defaults.wefe_crop_self_sufficiency],
                     event)
        water == shares_section(session.wefe_water_shares, WaterSources, "water", event)
        energy == shares_section(session.wefe_energy_shares, EnergySources, "energy", event)
    IN  [wefe_crop_enabled |-> crops.wefe_crop_enabled,
         wefe_crop_self_sufficiency |-> crops.wefe_crop_self_sufficiency,
         wefe_water_shares |-> water.shares,
         wefe_energy_shares |-> energy.shares,
         wefe_shown |-> [defaults_map |-> defaults.result,
                         water_message |-> water.message,
                         energy_message |-> energy.message,
                         rendered |-> TRUE]]

\* the session state of the WEFE tab
session_state ==
    [wefe_crop_enabled |-> wefe_crop_enabled,
     wefe_crop_self_sufficiency |-> wefe_crop_self_sufficiency,
     wefe_water_shares |-> wefe_water_shares,
     wefe_energy_shares |-> wefe_energy_shares]

\* lines 196-205: the dicts of a new session
NewSession ==
    [wefe_crop_enabled |-> <<>>,
     wefe_crop_self_sufficiency |-> <<>>,
     wefe_water_shares |-> [src \in {WaterSources[i] : i \in DOMAIN WaterSources} |-> 0],
     wefe_energy_shares |-> [src \in {EnergySources[i] : i \in DOMAIN EnergySources} |-> 0]]

\* every data file loads
AllFiles == [strategies |-> TRUE, lab |-> TRUE]

NoCall == [done |-> FALSE]

\* the widgets of a new session: index=0 of the two selectboxes, value= of the inputs
DefaultSelection ==
    [strategy_name |-> Strategies[1].name, target |-> AllSites,
     assumptions |-> DefaultAssumptions]

\* the first run of a session, on the first data set
FirstRun == render_wefe_analysis(NewSession, DataSets[1].lab, Resources, NoEvent)

\* The session after its first run: no strategy applied, the crops of the lab's
\* distribution enabled, the widgets at their initial values.
Init ==
    /\ agro_applied_strategies = <<>>
    /\ wefe_crop_enabled = FirstRun.wefe_crop_enabled
    /\ data = 1
    /\ call = NoCall
    /\ selection = DefaultSelection
    /\ wefe_crop_self_sufficiency = FirstRun.wefe_crop_self_sufficiency
    /\ wefe_water_shares = FirstRun.wefe_water_shares
    /\ wefe_energy_shares = FirstRun.wefe_energy_shares
    /\ wefe_shown = FirstRun.wefe_shown
    /\ files = AllFiles

\* faulty variants: the new record put in front of the list; the widgets set back to
\* their defaults by the press
ApplyAtFront(n, t, a, p) ==
    LET selected_strategy == StrategyNamed(n)
        shown == Preview(t, sites_props, selected_strategy.affected_land_types,
                         selected_strategy.cost_per_sqm_usd, a)
    IN  /\ t \in site_options(sites_props)
        /\ selected_crops # {}
        /\ Len(agro_applied_strategies) < MaxApps
        /\ agro_applied_strategies' =
               <<NewApplication(selected_strategy, shown.scope_site_name,
                                selected_strategy.affected_land_types,
                                selected_strategy.cost_per_sqm_usd, a, p)>>
                   \o agro_applied_strategies
        /\ UNCHANGED <<wefe_state, files, wefe_crop_enabled, data, call, selection>>

ApplyAndReset(n, t, a, p) ==
    LET selected_strategy == StrategyNamed(n)
        shown == Preview(t, sites_props, selected_strategy.affected_land_types,
                         selected_strategy.cost_per_sqm_usd, a)
    IN  /\ t \in site_options(sites_props)
        /\ selected_crops # {}
        /\ Len(agro_applied_strategies) < MaxApps
        /\ agro_applied_strategies' =
               Append(agro_applied_strategies,
                      NewApplication(selected_strategy, shown.scope_site_name,
                                     selected_strategy.affected_land_types,
                                     selected_strategy.cost_per_sqm_usd, a, p))
        /\ selection' = DefaultSelection
        /\ UNCHANGED <<wefe_state, files, wefe_crop_enabled, data, call>>

\* faulty variant: the Apply button drawn whether or not a crop is selected
ApplyWithoutCrops(n, t, a, p) ==
    LET selected_strategy == StrategyNamed(n)
        affected_types == selected_strategy.affected_land_types
        unit_cost == selected_strategy.cost_per_sqm_usd
        shown == Preview(t, sites_props, affected_types, unit_cost, a)
    IN  /\ files.strategies
        /\ t \in site_options(sites_props)
        /\ files.lab
        /\ Len(agro_applied_strategies) < MaxApps
        /\ agro_applied_strategies' =
               Append(agro_applied_strategies,
                      NewApplication(selected_strategy, shown.scope_site_name,
                                     affected_types, unit_cost, a, p))
        /\ UNCHANGED <<wefe_state, files, wefe_crop_enabled, data, call, selection>>

\* A run in which the user presses Apply, with the strategy n and the target t chosen
\* in the selectboxes, the number inputs a, and the random productivity increase p.
\* The render returns before the button when no strategy loaded (lines 182-184) or
\* the lab and resources did not load (316-318), and the button exists only when some
\* crop is selected (327).  The press changes no widget.
Apply(n, t, a, p) ==
    LET selected_strategy == StrategyNamed(n)
        affected_types == selected_strategy.affected_land_types
        unit_cost == selected_strategy.cost_per_sqm_usd
        shown == Preview(t, sites_props, affected_types, unit_cost, a)
    IN  /\ files.strategies
        /\ t \in site_options(sites_props)
        /\ files.lab
        /\ selected_crops # {}
        /\ Len(agro_applied_strategies) < MaxApps
        /\ agro_applied_strategies' =
               Append(agro_applied_strategies,
                      NewApplication(selected_strategy, shown.scope_site_name,
                                     affected_types, unit_cost, a, p))
        /\ UNCHANGED <<wefe_state, files, wefe_crop_enabled, data, call, selection>>

\* A run in which the user presses the remove button of the application at index idx
\* (0-based): pop, then rerun.  The list is rendered only by a run that loaded the
\* strategies, the lab and the resources.
Remove(idx) ==
    /\ files.strategies
    /\ files.lab
    /\ idx \in 0 .. Len(agro_applied_strategies) - 1
    /\ agro_applied_strategies' = Pop(agro_applied_strategies, idx)
    /\ UNCHANGED <<wefe_state, files, wefe_crop_enabled, data, call, selection>>

\* the data files are replaced on disk; the next render reads the new ones
DataFilesChanged(d) ==
    /\ d # data
    /\ data' = d
    /\ UNCHANGED <<wefe_state, files, agro_applied_strategies, wefe_crop_enabled, call, selection>>

Next ==
    \/ \E n \in StrategyNames, t \in TargetOptions, a \in AssumptionChoices,
          p \in ProductivityDraws : Apply(n, t, a, p)
    \/ \E idx \in 0 .. MaxApps - 1 : Remove(idx)
    \/ \E d \in DOMAIN DataSets : DataFilesChanged(d)

Spec == Init /\ [][Next]_vars

(***************************************************************************)
(* The production tables under the crops ticked in the WEFE tab            *)
(***************************************************************************)
\* food_names + non_food_names of the WEFE tab
CropNames ==
    {CropsDoc.food[i].name : i \in DOMAIN CropsDoc.food}
        \cup {CropsDoc.nonfood[i].name : i \in DOMAIN CropsDoc.nonfood}

\* A run in which the user ticks or unticks the checkbox of crop name:
\* st.session_state.wefe_crop_enabled[name] = enabled
ToggleCrop(name) ==
    LET enabled == IF name \in DOMAIN wefe_crop_enabled
                   THEN ~wefe_crop_enabled[name] ELSE TRUE
    IN  /\ wefe_crop_enabled' =
               [n \in DOMAIN wefe_crop_enabled \cup {name} |->
                   IF n = name THEN enabled ELSE wefe_crop_enabled[n]]
        /\ UNCHANGED <<wefe_state, files, agro_applied_strategies, data, call, selection>>

\* The strategy and the number inputs are left at their defaults: the production
\* tables read the target and the productivity increase only.
NextProduction ==
    \/ \E t \in TargetOptions, p \in ProductivityDraws :
           Apply(Strategies[1].name, t, DefaultAssumptions, p)
    \/ \E idx \in 0 .. MaxApps - 1 : Remove(idx)
    \/ \E name \in CropNames : ToggleCrop(name)
    \/ \E d \in DOMAIN DataSets : DataFilesChanged(d)

SpecProduction == Init /\ [][NextProduction]_vars

(***************************************************************************)
(* The configuration workflow: the widgets keep their values from one run  *)
(* to the next, and Apply takes the values they hold                       *)
(***************************************************************************)
\* st.selectbox("Select an agroforestry strategy", strategy_names, index=0)
SelectStrategy(n) ==
    /\ n # selection.strategy_name
    /\ selection' = [selection EXCEPT !.strategy_name = n]
    /\ UNCHANGED <<wefe_state, files, agro_applied_strategies, wefe_crop_enabled, data, call>>

\* st.selectbox("Apply to all sites or a specific site", site_options, index=0)
SelectTarget(t) ==
    /\ t \in site_options(sites_props)
    /\ t # selection.target
    /\ selection' = [selection EXCEPT !.target = t]
    /\ UNCHANGED <<wefe_state, files, agro_applied_strategies, wefe_crop_enabled, data, call>>

\* the three st.number_input of the assumptions expander
SetAssumptions(a) ==
    /\ a # selection.assumptions
    /\ selection' = [selection EXCEPT !.assumptions = a]
    /\ UNCHANGED <<wefe_state, files, agro_applied_strategies, wefe_crop_enabled, data, call>>

\* Apply with the values the widgets hold
ApplySelection(p) ==
    Apply(selection.strategy_name, selection.target, selection.assumptions, p)

\* the productivity increase drawn in the workflow runs
WorkflowDraws == {Q(10, 1)}

NextWorkflow ==
    \/ \E n \in StrategyNames : SelectStrategy(n)
    \/ \E t \in TargetOptions : SelectTarget(t)
    \/ \E a \in AssumptionChoices : SetAssumptions(a)
    \/ \E p \in WorkflowDraws : ApplySelection(p)
    \/ \E idx \in 0 .. MaxApps - 1 : Remove(idx)

SpecWorkflow == Init /\ [][NextWorkflow]_vars

(***************************************************************************)
(* The WEFE tab: each interaction with one of its widgets is one run        *)
(***************************************************************************)
\* what _load_damango_lab_and_resources and the default-enable step read from disk
loaded_lab == IF files.lab THEN lab ELSE None
loaded_resources == IF files.lab THEN Resources ELSE None

\* before the first run of the session nothing is shown
NothingShown == [defaults_map |-> <<>>, water_message |-> None, energy_message |-> None,
                 rendered |-> FALSE]

\* a new session, before its first run
InitWefe ==
    /\ agro_applied_strategies = <<>>
    /\ wefe_crop_enabled = NewSession.wefe_crop_enabled
    /\ data = 1
    /\ call = NoCall
    /\ selection = DefaultSelection
    /\ wefe_crop_self_sufficiency = NewSession.wefe_crop_self_sufficiency
    /\ wefe_water_shares = NewSession.wefe_water_shares
    /\ wefe_energy_shares = NewSession.wefe_energy_shares
    /\ wefe_shown = NothingShown
    /\ files = AllFiles

\* one run of the script after the user's event on the WEFE tab
WefeRun(event) ==
    LET after == render_wefe_analysis(session_state, loaded_lab, loaded_resources, event)
    IN  /\ wefe_crop_enabled' = after.wefe_crop_enabled
        /\ wefe_crop_self_sufficiency' = after.wefe_crop_self_sufficiency
        /\ wefe_water_shares' = after.wefe_water_shares
        /\ wefe_energy_shares' = after.wefe_energy_shares
        /\ wefe_shown' = after.wefe_shown
        /\ UNCHANGED <<agro_applied_strategies, data, call, selection, files>>

\* a run with no widget of the WEFE tab touched: the first run, or a rerun
Rerun == WefeRun(NoEvent)

\* the widgets exist once a run has drawn them
Drawn == wefe_shown # NothingShown

\* the user ticks or unticks the checkbox of a crop
ClickCrop(name) ==
    /\ Drawn
    /\ WefeRun(Click(name))

\* the user types a percentage in the number input of a crop; the input is disabled
\* while the crop is not enabled
TypeCropPercent(name, value) ==
    /\ Drawn
    /\ EnabledGet(wefe_crop_enabled, name)
    /\ value # StoredGet(wefe_crop_self_sufficiency, name)
    /\ WefeRun(TypePercent(name, value))

TypeWaterShare(src, value) ==
    /\ Drawn
    /\ value # wefe_water_shares[src]
    /\ WefeRun(TypeWater(src, value))

TypeEnergyShare(src, value) ==
    /\ Drawn
    /\ value # wefe_energy_shares[src]
    /\ WefeRun(TypeEnergy(src, value))

\* the values typed in the number inputs (min_value=0, max_value=100, step=1)
PercentInputs == {0, 40}
WaterShareInputs == {0, 40, 60}
EnergyShareInputs == {0, 50}

NextWefe ==
    \/ Rerun
    \/ \E name \in CropNames : ClickCrop(name)
    \/ \E name \in CropNames, value \in PercentInputs : TypeCropPercent(name, value)
    \/ \E d \in DOMAIN DataSets : DataFilesChanged(d)

SpecWefe == InitWefe /\ [][NextWefe]_vars

NextShares ==
    \/ Rerun
    \/ \E i \in DOMAIN WaterSources, value \in WaterShareInputs :
           TypeWaterShare(WaterSources[i], value)
    \/ \E i \in DOMAIN EnergySources, value \in EnergyShareInputs :
           TypeEnergyShare(EnergySources[i], value)

SpecShares == InitWefe /\ [][NextShares]_vars

(***************************************************************************)
(* The data files come and go between runs                                 *)
(***************************************************************************)
\* data/agroforestry_strategies.json, and lab.json with lab_resources_info.json, are
\* removed from or put back on disk; the loaders return {} and (None, None) for a
\* file they cannot open
FilesChanged(f) ==
    /\ f # files
    /\ files' = f
    /\ UNCHANGED <<agro_applied_strategies, wefe_crop_enabled, data, call, selection,
                   wefe_crop_self_sufficiency, wefe_water_shares, wefe_energy_shares,
                   wefe_shown>>

FileStates == [strategies : BOOLEAN, lab : BOOLEAN]

NextAvailability ==
    \/ \E t \in TargetOptions, p \in ProductivityDraws :
           Apply(Strategies[1].name, t, DefaultAssumptions, p)
    \/ \E idx \in 0 .. MaxApps - 1 : Remove(idx)
    \/ \E name \in CropNames : ClickCrop(name)
    \/ \E f \in FileStates : FilesChanged(f)

SpecAvailability == Init /\ [][NextAvailability]_vars

(***************************************************************************)
(* The functions of the engine called on their own, on arguments drawn     *)
(* from the values a data file or a caller can hold                        *)
(***************************************************************************)
AreaInputs == {Q(-50, 1), Zero, Q(100, 1), Q(250, 1)}
ConsumptionInputs ==
    {None, Str("n/a"), Float(0, 1), Float(-500, 1), Float(500, 1), Float(8000, 1)}
SpaceInputs == {None, Str("n/a"), Float(0, 1), Float(-1, 4), Float(1, 4), Float(2, 1)}
WeeklyYieldInputs ==
    {None, Str("n/a"), Float(0, 1), Float(-200, 1), Float(200, 1), Float(240, 1)}
YieldDaysInputs ==
    {None, Str("n/a"), Float(0, 1), Float(-70, 1), Float(70, 1), Float(7, 10000000)}

CallSelfSufficiency(space, yield_days, area_m2, annual_consumption_kg, weekly_yield_g) ==
    LET crop_info == [space_m2_per_seed |-> space, yield_period_days |-> yield_days]
    IN  /\ call = NoCall
        /\ call' = [done |-> TRUE,
                    fn |-> "_compute_self_sufficiency",
                    crop_info |-> crop_info,
                    area_m2 |-> area_m2,
                    annual_consumption_kg |-> annual_consumption_kg,
                    weekly_yield_g |-> weekly_yield_g,
                    result |-> _compute_self_sufficiency("Maize", crop_info, area_m2,
                                                         annual_consumption_kg,
                                                         weekly_yield_g)]
        /\ UNCHANGED <<wefe_state, files, agro_applied_strategies, wefe_crop_enabled, data, selection>>

\* the site records of every data set, and a strategy that affects nothing
SiteInputs == UNION {{SitesOf(d)[i] : i \in DOMAIN SitesOf(d)} : d \in DOMAIN DataSets}

StrategyInputs ==
    {Strategies[i] : i \in DOMAIN Strategies}
        \cup {[key |-> "none", name |-> "No land", affected_land_types |-> <<>>,
               cost_per_sqm_usd |-> Q(7, 1)]}

\* the preview's computation for one site
CallComputeForSite(props, strategy, a) ==
    /\ call = NoCall
    /\ call' = [done |-> TRUE,
                fn |-> "compute_for_site",
                site |-> props,
                affected_types |-> strategy.affected_land_types,
                unit_cost |-> strategy.cost_per_sqm_usd,
                assumptions |-> a,
                result |-> compute_for_site(props, strategy.affected_land_types,
                                            strategy.cost_per_sqm_usd,
                                            a.water_gain_l_per_m2,
                                            a.energy_saved_kwh_per_m3,
                                            a.carbon_seq_kgco2e_per_m2)]
    /\ UNCHANGED <<wefe_state, files, agro_applied_strategies, wefe_crop_enabled, data, selection>>

\* the aggregate's computation for one site and one application
CallCompute(props, strategy, a, p) ==
    LET app == NewApplication(strategy, None, strategy.affected_land_types,
                              strategy.cost_per_sqm_usd, a, p)
    IN  /\ call = NoCall
        /\ call' = [done |-> TRUE,
                    fn |-> "compute",
                    site |-> props,
                    affected_types |-> app.affected_types,
                    unit_cost |-> app.unit_cost,
                    assumptions |-> a,
                    result |-> compute(props, app)]
        /\ UNCHANGED <<wefe_state, files, agro_applied_strategies, wefe_crop_enabled, data, selection>>

\* _calculate_productivity_increase_percent(crop_name, scope) evaluated twice on the
\* same arguments: each evaluation is a draw of random.uniform(5.0, 100.0)
CallProductivityIncreaseTwice(crop_name, scope, first, second) ==
    /\ call = NoCall
    /\ call' = [done |-> TRUE,
                fn |-> "_calculate_productivity_increase_percent",
                crop_name |-> crop_name,
                scope |-> scope,
                result |-> first,
                again |-> second]
    /\ UNCHANGED <<wefe_state, files, agro_applied_strategies, wefe_crop_enabled, data, selection>>

\* lab sites with a crop listed twice, a crop under another letter case, shares that
\* are zero or negative, unused green land in capitals, and no "green" land cover
SiteC ==
    [name |-> "Site C", surface_m3 |-> Q(2000, 1),
     land_cover_percent |-> [green |-> Q(40, 1), mixed |-> Q(20, 1)],
     crop_distribution |->
         << [name |-> "Maize", green_share_percent |-> Q(25, 1)],
            [name |-> "maize", green_share_percent |-> Q(10, 1)],
            [name |-> "Yam", green_share_percent |-> Q(-20, 1)],
            [name |-> "Maize", green_share_percent |-> Q(5, 1)],
            [name |-> "Cotton", green_share_percent |-> Zero],
            [name |-> "UNUSED GREENLAND", green_share_percent |-> Q(30, 1)] >>]

SiteD ==
    [name |-> "Site D", surface_m3 |-> Q(600, 1),
     land_cover_percent |-> [mixed |-> Q(50, 1)],
     crop_distribution |->
         << [name |-> "Maize", green_share_percent |-> Q(50, 1)] >>]

\* the labs of the data sets, labs with the sites above, and a lab that lists two
\* sites under one name
LabInputs ==
    {DataSets[d].lab : d \in DOMAIN DataSets}
        \cup {[sites |-> <<SiteC, SiteA>>], [sites |-> <<SiteD, SiteC, SiteB>>],
               [sites |-> <<SiteA, SiteA2>>]}

ScopeInputs == {None, Str("Site A"), Str("Site B"), Str("Site C"), Str("Site D")}

CallCropAreaMap(lab_, scope_site_name) ==
    /\ call = NoCall
    /\ call' = [done |-> TRUE,
                fn |-> "_compute_crop_area_map",
                lab |-> lab_,
                scope_site_name |-> scope_site_name,
                result |-> _compute_crop_area_map(lab_, scope_site_name)]
    /\ UNCHANGED <<wefe_state, files, agro_applied_strategies, wefe_crop_enabled, data, selection>>

\* the area allocation of wefe_analysis.calculate_self_sufficiency
CallWefeCropArea(lab_) ==
    /\ call = NoCall
    /\ call' = [done |-> TRUE,
                fn |-> "calculate_self_sufficiency",
                lab |-> lab_,
                scope_site_name |-> None,
                result |-> crop_to_area_m2(lab_)]
    /\ UNCHANGED <<wefe_state, files, agro_applied_strategies, wefe_crop_enabled, data, selection>>

\* a site with little land under Yam: its default self-sufficiency is below 100 %
SiteE ==
    [name |-> "Site E", surface_m3 |-> Q(480, 1),
     land_cover_percent |-> [green |-> Q(50, 1)],
     crop_distribution |->
         << [name |-> "Yam", green_share_percent |-> Q(20, 1)],
            [name |-> "Cotton", green_share_percent |-> Q(30, 1)] >>]

\* what _load_damango_lab_and_resources returns: the two documents, or (None, None)
\* when a file cannot be read
LoadedInputs ==
    {[lab |-> lab_, resources |-> Resources] : lab_ \in LabInputs \cup {[sites |-> <<SiteE>>]}}
        \cup {[lab |-> None, resources |-> None]}

\* the dicts st.session_state holds when the function is called
EnabledInputs ==
    {<<>>, [Maize |-> TRUE, Yam |-> TRUE, Cotton |-> TRUE],
     [Maize |-> TRUE, Yam |-> FALSE, Cotton |-> FALSE],
     [Maize |-> FALSE, Yam |-> TRUE, Cotton |-> TRUE]}
StoredInputs ==
    {<<>>, [Maize |-> 0, Yam |-> 0], [Maize |-> 40, Yam |-> 100], [Yam |-> 55, Cotton |-> 10]}

\* calculate_self_sufficiency(crop_info_map): the map returned and the stored
\* percentages after the call
CallCalculateSelfSufficiency(loaded, enabled_map, stored) ==
    LET after == calculate_self_sufficiency(wefe_crop_info_map, loaded.lab,
                                            loaded.resources, enabled_map, stored)
    IN  /\ call = NoCall
        /\ call' = [done |-> TRUE,
                    fn |-> "wefe_analysis.calculate_self_sufficiency",
                    lab |-> loaded.lab,
                    resources |-> loaded.resources,
                    wefe_crop_enabled |-> enabled_map,
                    stored |-> stored,
                    stored_after |-> after.wefe_crop_self_sufficiency,
                    result |-> after.result]
        /\ UNCHANGED <<wefe_state, files, agro_applied_strategies, wefe_crop_enabled, data, selection>>

\* the site lists a sites file can hold: those of the data sets, and one that lists
\* two sites under one name
SitesPropsInputs ==
    {DataSets[d].sites_props : d \in DOMAIN DataSets} \cup {<<SiteA, SiteA2>>}

\* One render in which Apply is pressed on an empty list, and the aggregation of the
\* list in the render that follows: the preview shown, the record appended, agg_totals.
CallApplyThenAggregate(props, n, t, a, p) ==
    LET selected_strategy == StrategyNamed(n)
        affected_types == selected_strategy.affected_land_types
        unit_cost == selected_strategy.cost_per_sqm_usd
        preview == Preview(t, props, affected_types, unit_cost, a)
        application == NewApplication(selected_strategy, preview.scope_site_name,
                                      affected_types, unit_cost, a, p)
    IN  /\ call = NoCall
        /\ t \in site_options(props)
        /\ call' = [done |-> TRUE,
                    fn |-> "aggregate_impacts",
                    sites_props |-> props,
                    selected_target |-> t,
                    shown |-> preview.shown,
                    application |-> application,
                    result |-> aggregate_impacts(<<application>>, props)]
        /\ UNCHANGED <<wefe_state, files, agro_applied_strategies, wefe_crop_enabled, data, selection>>

\* scope_label of the preview: "all sites" or the name of the selected site
ScopeLabels == {"all sites"} \cup (TargetOptions \ {AllSites})

NextCalls ==
    \/ \E loaded \in LoadedInputs, enabled_map \in EnabledInputs, stored \in StoredInputs :
              CallCalculateSelfSufficiency(loaded, enabled_map, stored)
    \/ \E props \in SitesPropsInputs, n \in StrategyNames, t \in TargetOptions,
          a \in AssumptionChoices, p \in WorkflowDraws :
              CallApplyThenAggregate(props, n, t, a, p)
    \/ \E lab_ \in LabInputs, scope_site_name \in ScopeInputs :
              CallCropAreaMap(lab_, scope_site_name)
    \/ \E lab_ \in LabInputs : CallWefeCropArea(lab_)
    \/ \E crop_name \in CropNames \cup {"*"}, scope \in ScopeLabels,
          first \in ProductivityDraws, second \in ProductivityDraws :
              CallProductivityIncreaseTwice(crop_name, scope, first, second)
    \/ \E space \in SpaceInputs, yield_days \in YieldDaysInputs, area_m2 \in AreaInputs,
          annual_consumption_kg \in ConsumptionInputs,
          weekly_yield_g \in WeeklyYieldInputs :
              CallSelfSufficiency(space, yield_days, area_m2, annual_consumption_kg,
                                  weekly_yield_g)
    \/ \E props \in SiteInputs, strategy \in StrategyInputs, a \in AssumptionChoices :
              CallComputeForSite(props, strategy, a)
    \/ \E props \in SiteInputs, strategy \in StrategyInputs, a \in AssumptionChoices,
          p \in ProductivityDraws :
              CallCompute(props, strategy, a, p)

SpecCalls == Init /\ [][NextCalls]_vars

(***************************************************************************)
(* Properties                                                              *)
(***************************************************************************)
apps == agro_applied_strategies

\* the applications of list in the order given by the permutation f of its indices
Reordered(list, f) == [i \in 1 .. Len(list) |-> list[f[i]]]

Reorderings(list) == {Reordered(list, f) : f \in Permutations(1 .. Len(list))}

PercentOf(app) == app.assumptions.productivity_increase_percent

RECURSIVE Power(_, _)
Power(x, n) == IF n = 0 THEN One ELSE Mul(x, Power(x, n - 1))

\* C1: the effective productivity multiplier is the product over the applications
\* of (1 + p/100): 1 for the empty list, (1 + p/100)^N when the N applications have
\* the same increase p, 33/25 = 1.32 (not 1.30) for the increases 20 and 10, and the
\* same in whatever order the applications are listed.
C1_MultiplierIsProduct ==
    LET m == effective_productivity_multiplier(apps)
        ps == {PercentOf(apps[i]) : i \in DOMAIN apps}
    IN  /\ apps = <<>> => m = One
        /\ \A q \in ps : ps = {q} => m = Power(Add(One, Div(q, Hundred)), Len(apps))
        /\ (Len(apps) = 2 /\ ps = {Q(20, 1), Q(10, 1)}) => m = Q(132, 100) /\ m # Q(130, 100)
        /\ \A r \in Reorderings(apps) : effective_productivity_multiplier(r) = m

C1_Witness ==
    /\ Len(apps) = 2
    /\ PercentOf(apps[1]) = Q(20, 1)
    /\ PercentOf(apps[2]) = Q(10, 1)
    /\ effective_productivity_multiplier(apps) = Q(33, 25)

\* C2: aggregation is linear: however the list is split into A ++ B, each of the five
\* metrics of the aggregate of the whole list is the sum of that metric in the
\* aggregates of A and of B, over the same sites.
C2_AggregationLinear ==
    \A k \in 0 .. Len(apps) :
        LET A == SubSeq(apps, 1, k)
            B == SubSeq(apps, k + 1, Len(apps))
            whole == aggregate_impacts(A \o B, sites_props)
            left == aggregate_impacts(A, sites_props)
            right == aggregate_impacts(B, sites_props)
        IN  \A m \in MetricNames : whole[m] = Add(left[m], right[m])

C2_Witness ==
    /\ Len(apps) = 2
    /\ LET first == aggregate_impacts(<<apps[1]>>, sites_props)
           second == aggregate_impacts(<<apps[2]>>, sites_props)
           whole == aggregate_impacts(apps, sites_props)
       IN  \A m \in MetricNames :
               Lt(Zero, first[m]) /\ Lt(first[m], second[m]) /\ Lt(second[m], whole[m])

SelfSufficiencyCalled == call.done /\ call.fn = "_compute_self_sufficiency"

\* a required number is missing, non-numeric or <= 0
Unusable(x) == ~IsNumber(x) \/ Le(x.val, Zero)

\* C4: _compute_self_sufficiency never returns a negative number, and returns None
\* (without raising) whenever area_m2 <= 0, or annual_consumption_kg is missing,
\* non-numeric or <= 0, or one of space_m2_per_seed, weekly_yield_g and
\* yield_period_days is missing, non-numeric or <= 0.
C4_UndefinedNotNegative ==
    SelfSufficiencyCalled =>
        /\ call.result.kind \in {"NoneType", "float"}
        /\ call.result.kind = "float" => Le(Zero, call.result.val)
        /\ (\/ Le(call.area_m2, Zero)
            \/ Unusable(call.annual_consumption_kg)
            \/ Unusable(call.crop_info.space_m2_per_seed)
            \/ Unusable(call.weekly_yield_g)
            \/ Unusable(call.crop_info.yield_period_days))
           => call.result = None

\* a missing consumption behind a usable area, and the result is None
C4_Witness ==
    /\ SelfSufficiencyCalled
    /\ Lt(Zero, call.area_m2)
    /\ call.annual_consumption_kg = None
    /\ ~Unusable(call.crop_info.space_m2_per_seed)
    /\ ~Unusable(call.weekly_yield_g)
    /\ ~Unusable(call.crop_info.yield_period_days)
    /\ call.result = None

ValidSelfSufficiencyCall ==
    /\ SelfSufficiencyCalled
    /\ Lt(Zero, call.area_m2)
    /\ ~Unusable(call.annual_consumption_kg)
    /\ ~Unusable(call.crop_info.space_m2_per_seed)
    /\ ~Unusable(call.weekly_yield_g)
    /\ ~Unusable(call.crop_info.yield_period_days)

\* (1/space) * (weekly_yield_g/1000) * weeks_per_cycle * cycles_per_year
AnnualYieldPerArea(space, weekly, days) ==
    LET weeks == Div(days, Seven)
        cycles == Div(Q(521429, 10000), IF Lt(weeks, Q(1, 1000000)) THEN Q(1, 1000000) ELSE weeks)
    IN  Mul(Div(One, space), Mul(Div(weekly, Thousand), Mul(weeks, cycles)))

\* C5: for valid inputs the self-sufficiency is
\* max(0, annual_yield_per_area * area_m2 / annual_consumption_kg * 100), with no
\* upper clamp; space 0.25, 200 g/week, 70 days, 100 m2 and 500 kg/year give
\* 521429/625, about 834%.
C5_SelfSufficiencyFormula ==
    ValidSelfSufficiencyCall =>
        LET y == AnnualYieldPerArea(call.crop_info.space_m2_per_seed.val,
                                    call.weekly_yield_g.val,
                                    call.crop_info.yield_period_days.val)
            percent == Mul(Div(Mul(y, call.area_m2), call.annual_consumption_kg.val), Hundred)
        IN  /\ call.result.kind = "float"
            /\ call.result.val = (IF Lt(percent, Zero) THEN Zero ELSE percent)
            /\ (Lt(call.annual_consumption_kg.val, Mul(y, call.area_m2))
                    => Lt(Hundred, call.result.val))
            /\ (/\ call.crop_info.space_m2_per_seed = Float(1, 4)
                /\ call.weekly_yield_g = Float(200, 1)
                /\ call.crop_info.yield_period_days = Float(70, 1)
                /\ call.area_m2 = Q(100, 1)
                /\ call.annual_consumption_kg = Float(500, 1))
               => /\ call.result.val = Q(521429, 625)
                  /\ Lt(Q(834, 1), call.result.val)
                  /\ Lt(call.result.val, Q(835, 1))

C5_Witness ==
    /\ SelfSufficiencyCalled
    /\ call.crop_info.space_m2_per_seed = Float(1, 4)
    /\ call.weekly_yield_g = Float(200, 1)
    /\ call.crop_info.yield_period_days = Float(70, 1)
    /\ call.area_m2 = Q(100, 1)
    /\ call.annual_consumption_kg = Float(500, 1)
    /\ call.result = Float(521429, 625)

SiteImpactCalled == call.done /\ call.fn \in {"compute_for_site", "compute"}

\* the percentage of land type t in a site's land cover, 0 when the site has no such key
CoverOf(site, t) ==
    IF t \in DOMAIN site.land_cover_percent THEN site.land_cover_percent[t] ELSE Zero

\* the sum of the percentages of the types, taken from the last type to the first
RECURSIVE CoverSum(_, _, _)
CoverSum(site, types, n) ==
    IF n = 0 THEN Zero ELSE Add(CoverSum(site, types, n - 1), CoverOf(site, types[n]))

\* clamp(x, 0, 1)
ClampUnit(x) == IF Lt(x, Zero) THEN Zero ELSE IF Lt(One, x) THEN One ELSE x

\* C6: the affected area of a site is total_area * clamp(sum of the land-cover
\* percentages of the affected types / 100, 0, 1), absent types counting 0; so it lies
\* in [0, total_area] when the area is not negative, and a site of 1000 m2 with
\* green = 50 and affected types [green] has 500 m2 affected, costing 1000 at unit
\* cost 2.
C6_AffectedArea ==
    SiteImpactCalled =>
        LET site == call.site
            types == call.affected_types
            share == Div(CoverSum(site, types, Len(types)), Hundred)
            affected_m2 == call.result.affected_m2
        IN  /\ affected_m2 = Mul(site.surface_m3, ClampUnit(share))
            /\ Le(Zero, site.surface_m3)
                   => Le(Zero, affected_m2) /\ Le(affected_m2, site.surface_m3)
            /\ (/\ site.surface_m3 = Q(1000, 1)
                /\ CoverOf(site, "green") = Q(50, 1)
                /\ types = <<"green">>
                /\ call.unit_cost = Q(2, 1))
               => /\ affected_m2 = Q(500, 1)
                  /\ call.result.total_cost_usd = Q(1000, 1)

\* the scenario, in the aggregate's computation, with an absent land type elsewhere
C6_Witness ==
    /\ call.done
    /\ call.fn = "compute"
    /\ call.site.surface_m3 = Q(1000, 1)
    /\ call.affected_types = <<"green">>
    /\ call.unit_cost = Q(2, 1)
    /\ call.result.affected_m2 = Q(500, 1)
    /\ call.result.total_cost_usd = Q(1000, 1)

\* C7: for one site, total cost = affected_m2 * unit cost, saved water =
\* affected_m2 * water_gain_l_per_m2 / 1000, saved energy = saved water *
\* energy_saved_kwh_per_m3 and carbon = affected_m2 * carbon_seq_kgco2e_per_m2; with
\* a water gain of 0 the saved energy is 0 whatever the energy coefficient.
C7_ImpactMetrics ==
    SiteImpactCalled =>
        LET r == call.result
            a == call.assumptions
        IN  /\ r.total_cost_usd = Mul(r.affected_m2, call.unit_cost)
            /\ r.saved_water_m3_per_year
                   = Div(Mul(r.affected_m2, a.water_gain_l_per_m2), Thousand)
            /\ r.saved_energy_kwh_per_year
                   = Mul(r.saved_water_m3_per_year, a.energy_saved_kwh_per_m3)
            /\ r.carbon_sequestration_kgco2e_per_year
                   = Mul(r.affected_m2, a.carbon_seq_kgco2e_per_m2)
            /\ a.water_gain_l_per_m2 = Zero => r.saved_energy_kwh_per_year = Zero

\* land is affected, the water gain is 0, the energy coefficient is not
C7_Witness ==
    /\ call.done
    /\ call.fn = "compute_for_site"
    /\ Lt(Zero, call.result.affected_m2)
    /\ call.assumptions.water_gain_l_per_m2 = Zero
    /\ Lt(Zero, call.assumptions.energy_saved_kwh_per_m3)
    /\ call.result.saved_energy_kwh_per_year = Zero
    /\ Lt(Zero, call.result.carbon_sequestration_kgco2e_per_year)

\* the sum of the aggregates of the applications of list taken one by one, from the
\* last to the first, leaving out the one at position skip (0: none)
RECURSIVE OneByOne(_, _, _)
OneByOne(list, n, skip) ==
    IF n = 0 THEN ZeroMetrics
    ELSE IF n = skip THEN OneByOne(list, n - 1, skip)
    ELSE AddMetrics(aggregate_impacts(<<list[n]>>, sites_props), OneByOne(list, n - 1, skip))

\* list without its element at position i (1-based), by selection
Without(list, i) == [j \in 1 .. Len(list) - 1 |-> IF j < i THEN list[j] ELSE list[j + 1]]

PreviewOf(st, t, a) ==
    Preview(t, sites_props, st.affected_land_types, st.cost_per_sqm_usd, a)

StrategySet == {Strategies[i] : i \in DOMAIN Strategies}

\* C8: the five impact outputs are never negative, in the preview of any selection
\* and in the aggregate over the applied strategies; they are not clamped to 100.
C8_ImpactsNonNegative ==
    /\ LET totals == agg_totals
       IN  \A m \in MetricNames : Le(Zero, totals[m])
    /\ \A st \in StrategySet, t \in site_options(sites_props), a \in AssumptionChoices :
           LET shown == PreviewOf(st, t, a).shown
           IN  /\ shown.kind = "dict"
               /\ \A m \in MetricNames : Le(Zero, shown.val[m])

\* a site with a negative percentage is in scope, and cost, water and carbon totals
\* are above 100
C8_Witness ==
    /\ apps # <<>>
    /\ \E i \in DOMAIN sites_props :
           Lt(LandCoverGet(sites_props[i].land_cover_percent, "green"), Zero)
    /\ Lt(Hundred, agg_totals.total_cost_usd)
    /\ Lt(Hundred, agg_totals.carbon_sequestration_kgco2e_per_year)
    /\ Lt(Zero, agg_totals.saved_energy_kwh_per_year)

SiteNames(props) == {props[i].name : i \in DOMAIN props}

\* the sum of a sequence of metric records, from the last to the first
RECURSIVE SumMetrics(_, _)
SumMetrics(seq, n) ==
    IF n = 0 THEN ZeroMetrics ELSE AddMetrics(seq[n], SumMetrics(seq, n - 1))

\* C9: with the scope "all sites", each metric is the sum over every site of the
\* metric of that site evaluated alone, with the same strategy and assumptions: in
\* the preview, and for every application whose target is ALL.
C9_AllSitesIsSumOfSites ==
    /\ \A i \in DOMAIN apps :
           apps[i].target = "ALL" =>
               LET alone == [k \in DOMAIN sites_props |->
                                aggregate_impacts(
                                    <<[apps[i] EXCEPT !.target = sites_props[k].name]>>,
                                    sites_props)]
               IN  aggregate_impacts(<<apps[i]>>, sites_props)
                       = SumMetrics(alone, Len(sites_props))
    /\ \A st \in StrategySet, a \in AssumptionChoices :
           LET alone == [k \in DOMAIN sites_props |->
                            PreviewOf(st, sites_props[k].name, a).shown.val]
           IN  PreviewOf(st, AllSites, a).shown.val = SumMetrics(alone, Len(sites_props))

\* two sites, and an application for all sites that affects land on both
C9_Witness ==
    /\ Len(sites_props) = 2
    /\ \E i \in DOMAIN apps :
           /\ apps[i].target = "ALL"
           /\ \A k \in DOMAIN sites_props :
                  \A m \in MetricNames :
                      Lt(Zero, aggregate_impacts(<<apps[i]>>, <<sites_props[k]>>)[m])
           /\ aggregate_impacts(<<apps[i]>>, sites_props).affected_m2 = Q(3300, 1)

\* the named sites an application or the selectbox can ask for
RequestedNames == TargetOptions \ {AllSites}

\* C10: a requested named site that is not in the current site list is an empty
\* scope: an application for it adds zero to every impact total, and the crop area
\* map restricted to a site the lab does not list gives every crop the area 0.
C10_MissingSiteIsEmptyScope ==
    /\ \A i \in DOMAIN apps :
           apps[i].target \notin {"ALL"} \cup SiteNames(sites_props) =>
               /\ aggregate_impacts(<<apps[i]>>, sites_props) = ZeroMetrics
               /\ agg_totals = aggregate_impacts(Without(apps, i), sites_props)
    /\ \A t \in RequestedNames :
           t \notin SiteNames(lab.sites) =>
               \A crop \in Crops : AreaGet(_compute_crop_area_map(lab, Str(t)), crop) = Zero

\* an application for a site the list no longer has, beside one that contributes, and
\* a selectable site the lab does not list although crops grow elsewhere in the lab
C10_Witness ==
    /\ Len(apps) = 2
    /\ apps[1].target = "Site A"
    /\ "Site A" \notin SiteNames(sites_props)
    /\ apps[2].target = "ALL"
    /\ Lt(Zero, agg_totals.affected_m2)
    /\ "Site B" \in site_options(sites_props)
    /\ "Site B" \notin SiteNames(lab.sites)
    /\ Lt(Zero, AreaGet(_compute_crop_area_map(lab, None), "Maize"))

\* the rows of the aggregated production table of the run
agg_rows == aggregated_rows(apps, lab, wefe_crop_enabled)

\* the scope_site_name of the preview for the target t
ScopeOf(t) == IF t = AllSites THEN None ELSE Str(t)

\* the preview's production row of a crop for the target t and the increase inc
PreviewRowOf(crop, t, inc) ==
    preview_row(crop, _compute_crop_area_map(lab, ScopeOf(t)), inc)

\* C11: an undefined self-sufficiency is reported by the production tables as an
\* absence of value: where the starting or the new self-sufficiency of a selected
\* crop is undefined, the figure put in the row is not the number zero.
C11_UndefinedIsNotZero ==
    /\ \A crop \in DOMAIN agg_rows :
           /\ agg_rows[crop].baseline_ss = None => agg_rows[crop].starting_shown # Zero
           /\ agg_rows[crop].new_ss = None => agg_rows[crop].new_shown # Zero
    /\ \A crop \in selected_crops, t \in site_options(sites_props),
          inc \in ProductivityDraws :
           LET row == PreviewRowOf(crop, t, inc)
           IN  /\ row.baseline_ss = None => row.starting_shown # Zero
               /\ row.new_ss = None => row.new_shown # Zero

\* the applications with the targets replaced by those of the sequence targets
Retargeted(list, targets) ==
    [i \in DOMAIN list |-> [list[i] EXCEPT !.target = targets[i]]]

\* every target an application can hold
StoredTargets == {"ALL"} \cup RequestedNames

\* (1 + p1/100) * ... * (1 + pn/100) for the first n applications
RECURSIVE Compounded(_, _)
Compounded(list, n) ==
    IF n = 0 THEN One
    ELSE Mul(Compounded(list, n - 1), Add(One, Div(PercentOf(list[n]), Hundred)))

\* the area of a crop summed over the sites of the lab, each taken alone
RECURSIVE AreaOverSites(_, _, _)
AreaOverSites(lab_, crop, n) ==
    IF n = 0 THEN Zero
    ELSE Add(AreaOverSites(lab_, crop, n - 1),
             AreaGet(_compute_crop_area_map([sites |-> <<lab_.sites[n]>>], None), crop))

\* C12: the aggregated new self-sufficiency of a selected crop is the self-sufficiency
\* for the baseline weekly yield times the compounded multiplier over the crop's area
\* summed across all sites, and the table is the same whatever the targets of the
\* applications.
C12_AggregateOverAllSites ==
    LET rows == agg_rows
        factor == Compounded(apps, Len(apps))
    IN  /\ \A crop \in DOMAIN rows :
               LET info == InfoGet(_load_crop_info_map, crop)
                   weekly == info.average_yield_g_per_week
               IN  rows[crop].new_ss =
                       _compute_self_sufficiency(
                           crop, info, AreaOverSites(lab, crop, Len(lab.sites)),
                           ConsumptionGet(crop),
                           IF IsNumber(weekly)
                           THEN [kind |-> "float", val |-> Mul(weekly.val, factor)]
                           ELSE None)
        /\ \A targets \in [DOMAIN apps -> StoredTargets] :
               aggregated_rows(Retargeted(apps, targets), lab, wefe_crop_enabled) = rows

\* two applications for two different named sites, and a crop grown on both sites whose
\* new self-sufficiency differs from the starting one
C12_Witness ==
    /\ Len(apps) = 2
    /\ apps[1].target = "Site A"
    /\ apps[2].target = "Site B"
    /\ Len(lab.sites) = 2
    /\ "Maize" \in DOMAIN agg_rows
    /\ agg_rows["Maize"].baseline_ss # None
    /\ agg_rows["Maize"].new_ss # agg_rows["Maize"].baseline_ss
    /\ agg_rows["Maize"].new_ss.val
           = _compute_self_sufficiency("Maize", InfoGet(_load_crop_info_map, "Maize"),
                                       Q(1700, 1), Float(100, 1),
                                       Float(1320, 1)).val

\* C14: the applications list changes only by one record appended at its end (Apply)
\* or by the deletion of the record at the clicked index (Remove); the other records
\* keep their content and their order, and no step edits a record in place.
C14_AppendOrDeleteOnly ==
    [][/\ \/ /\ Len(agro_applied_strategies') = Len(apps) + 1
              /\ SubSeq(agro_applied_strategies', 1, Len(apps)) = apps
           \/ \E i \in DOMAIN apps : agro_applied_strategies' = Without(apps, i)
       /\ \A p \in WorkflowDraws :
              ApplySelection(p) => Len(agro_applied_strategies') = Len(apps) + 1
       /\ \A idx \in 0 .. MaxApps - 1 :
              Remove(idx) => agro_applied_strategies' = Without(apps, idx + 1)
      ]_agro_applied_strategies

\* two different records in the list, and widgets that have moved on since
C14_Witness ==
    /\ Len(apps) = 2
    /\ apps[1] # apps[2]
    /\ apps[1].strategy_name # apps[2].strategy_name
    /\ apps[2].target # "ALL"
    /\ selection = DefaultSelection

\* what an application contributes to the totals, from the values it stores and the
\* site list alone
StoredContribution(app, props) ==
    SumMetrics(
        [k \in DOMAIN props |->
            IF app.target \in {"ALL", props[k].name}
            THEN LET area == Mul(props[k].surface_m3,
                                 ClampUnit(Div(CoverSum(props[k], app.affected_types,
                                                        Len(app.affected_types)),
                                               Hundred)))
                     water == Div(Mul(area, app.assumptions.water_gain_l_per_m2), Thousand)
                 IN  Metrics(area, Mul(area, app.unit_cost), water,
                             Mul(water, app.assumptions.energy_saved_kwh_per_m3),
                             Mul(area, app.assumptions.carbon_seq_kgco2e_per_m2))
            ELSE ZeroMetrics],
        Len(props))

\* the record an Apply press is to store for the values the widgets hold and the
\* productivity increase p
SnapshotOf(sel, p) ==
    LET st == CHOOSE x \in StrategySet : x.name = sel.strategy_name
    IN  [strategy_key |-> st.key,
         strategy_name |-> st.name,
         target |-> IF sel.target = AllSites THEN "ALL" ELSE sel.target,
         affected_types |-> st.affected_land_types,
         unit_cost |-> st.cost_per_sqm_usd,
         assumptions |->
             [water_gain_l_per_m2 |-> sel.assumptions.water_gain_l_per_m2,
              energy_saved_kwh_per_m3 |-> sel.assumptions.energy_saved_kwh_per_m3,
              carbon_seq_kgco2e_per_m2 |-> sel.assumptions.carbon_seq_kgco2e_per_m2,
              productivity_increase_percent |-> p]]

\* C13: an application is a snapshot.  Apply stores the affected land types, the unit
\* cost and the assumptions selected at that moment; a change of the selected strategy,
\* target or assumption inputs leaves the list as it is; applying or removing leaves
\* every other record as it is; and the totals after an Apply are the totals before
\* plus what the new record contributes by its stored values.
C13_Snapshot ==
    [][/\ selection' # selection => agro_applied_strategies' = apps
       /\ \A i \in DOMAIN apps :
              \/ i \in DOMAIN agro_applied_strategies'
                     /\ agro_applied_strategies'[i] = apps[i]
              \/ \E idx \in 0 .. Len(apps) - 1 :
                     /\ Remove(idx)
                     /\ i >= idx + 1
                     /\ i = idx + 1 \/ agro_applied_strategies'[i - 1] = apps[i]
       /\ \A p \in WorkflowDraws :
              ApplySelection(p) =>
                  LET rec == SnapshotOf(selection, p)
                  IN  /\ agro_applied_strategies' = Append(apps, rec)
                      /\ aggregate_impacts(Append(apps, rec), sites_props)
                             = AddMetrics(agg_totals, StoredContribution(rec, sites_props))
      ]_vars

\* an application stored under other assumptions and another strategy than the ones
\* selected now, beside a later one, both contributing to the totals
C13_Witness ==
    /\ Len(apps) = 2
    /\ apps[1].assumptions.water_gain_l_per_m2 # selection.assumptions.water_gain_l_per_m2
    /\ apps[1].strategy_name # selection.strategy_name
    /\ apps[2].strategy_name = selection.strategy_name
    /\ apps[1].assumptions.water_gain_l_per_m2 # DefaultAssumptions.water_gain_l_per_m2
    /\ agg_totals = AddMetrics(StoredContribution(apps[1], sites_props),
                               StoredContribution(apps[2], sites_props))
    /\ Lt(Zero, StoredContribution(apps[1], sites_props).carbon_sequestration_kgco2e_per_year)

\* C15 as stated: pressing Apply adds the current configuration to the list and the
\* widgets go back to their defaults (default strategy, all sites, default
\* coefficients).
C15_ApplyResetsPreview ==
    [][\A p \in WorkflowDraws :
           ApplySelection(p) =>
               /\ agro_applied_strategies' = Append(apps, SnapshotOf(selection, p))
               /\ selection' = DefaultSelection]_vars

\* C15, amended: pressing Apply adds the current configuration to the list and the
\* strategy, target and assumption coefficients selected stay as they are.
C15_ApplyKeepsSelection ==
    [][\A p \in WorkflowDraws :
           ApplySelection(p) =>
               /\ agro_applied_strategies' = Append(apps, SnapshotOf(selection, p))
               /\ selection' = selection]_vars

\* after an Apply with no default left in the widgets: the record just stored and the
\* widgets still hold the same strategy, target and coefficients
C15_Witness ==
    /\ apps # <<>>
    /\ \E p \in WorkflowDraws : apps[Len(apps)] = SnapshotOf(selection, p)
    /\ selection.strategy_name # DefaultSelection.strategy_name
    /\ selection.target # DefaultSelection.target
    /\ selection.assumptions # DefaultSelection.assumptions

\* C16: two evaluations on identical inputs give identical results: the productivity
\* increase computed for a crop (or recorded for a new application, crop "*") and a
\* scope is the same both times, and so is the preview's row built from it for the
\* same crop, areas and data.
C16_SameInputsSameResults ==
    (call.done /\ call.fn = "_calculate_productivity_increase_percent") =>
        /\ call.result = call.again
        /\ \A crop \in CropNames, t \in site_options(sites_props) :
               PreviewRowOf(crop, t, call.result) = PreviewRowOf(crop, t, call.again)

\* a < b for positive rationals, by their quotient
Below(a, b) == LET r == Div(b, a) IN r[1] > r[2]

\* the positive numbers among a set of inputs
PositiveOf(inputs) == {x \in inputs : IsNumber(x) /\ Lt(Zero, x.val)}

\* annual_yield_per_m2_kg of a crop: the self-sufficiency of 1 m2 against a
\* consumption of 100 kg
YieldPerArea(space, yield_days, weekly) ==
    _compute_self_sufficiency("Maize",
                              [space_m2_per_seed |-> space, yield_period_days |-> yield_days],
                              One, Float(100, 1), weekly).val

\* C17: for valid inputs, the annual yield per area and, for a fixed positive area and
\* consumption, the self-sufficiency are strictly increasing in the weekly yield and
\* strictly decreasing in the spacing.
C17_Monotone ==
    ValidSelfSufficiencyCall =>
        LET space == call.crop_info.space_m2_per_seed
            days == call.crop_info.yield_period_days
            weekly == call.weekly_yield_g
        IN  /\ \A more \in PositiveOf(WeeklyYieldInputs) :
                   Below(weekly.val, more.val) =>
                       /\ Below(call.result.val,
                                _compute_self_sufficiency("Maize", call.crop_info,
                                                          call.area_m2,
                                                          call.annual_consumption_kg,
                                                          more).val)
                       /\ Below(YieldPerArea(space, days, weekly),
                                YieldPerArea(space, days, more))
            /\ \A wider \in PositiveOf(SpaceInputs) :
                   Below(space.val, wider.val) =>
                       /\ Below(_compute_self_sufficiency(
                                    "Maize", [call.crop_info EXCEPT !.space_m2_per_seed = wider],
                                    call.area_m2, call.annual_consumption_kg, weekly).val,
                                call.result.val)
                       /\ Below(YieldPerArea(wider, days, weekly),
                                YieldPerArea(space, days, weekly))

\* a valid call with the smaller weekly yield and the smaller spacing, so that both
\* comparisons are made
C17_Witness ==
    /\ ValidSelfSufficiencyCall
    /\ \E more \in PositiveOf(WeeklyYieldInputs) : Below(call.weekly_yield_g.val, more.val)
    /\ \E wider \in PositiveOf(SpaceInputs) :
           Below(call.crop_info.space_m2_per_seed.val, wider.val)
    /\ Below(Hundred, call.result.val)


(***************************************************************************)
(* The area allocated to a crop, stated entry by entry                     *)
(***************************************************************************)
UnusedGreenlandSpellings == {"Unused Greenland", "unused greenland", "UNUSED GREENLAND"}

GreenArea(site) ==
    IF "green" \in DOMAIN site.land_cover_percent
    THEN Mul(site.surface_m3, ClampUnit(Div(site.land_cover_percent.green, Hundred)))
    ELSE Zero

\* the entries of one site that count for the crop: the same name, letter for letter,
\* not unused green land, a positive share
CountedEntries(site, crop) ==
    SelectSeq(site.crop_distribution,
              LAMBDA dist : /\ dist.name = crop
                            /\ dist.name \notin UnusedGreenlandSpellings
                            /\ dist.green_share_percent[1] > 0)

RECURSIVE EntriesArea(_, _)
EntriesArea(dists, green_area) ==
    IF dists = <<>> THEN Zero
    ELSE Add(Mul(green_area, ClampUnit(Div(Head(dists).green_share_percent, Hundred))),
             EntriesArea(Tail(dists), green_area))

RECURSIVE CropAreaOver(_, _)
CropAreaOver(sites, crop) ==
    IF sites = <<>> THEN Zero
    ELSE Add(EntriesArea(CountedEntries(Head(sites), crop), GreenArea(Head(sites))),
             CropAreaOver(Tail(sites), crop))

SitesInScope(lab_, scope_site_name) ==
    SelectSeq(lab_.sites,
              LAMBDA site : scope_site_name = None \/ site.name = scope_site_name.val)

CropKeys == {"Maize", "maize", "Yam", "Cotton"} \cup UnusedGreenlandSpellings

AreaCall == call.done /\ call.fn \in {"_compute_crop_area_map", "calculate_self_sufficiency"}

\* C18: the area of a crop is the sum, over the sites in scope, of
\* surface * clamp(green percent / 100, 0, 1) * clamp(share / 100, 0, 1) over the
\* crop_distribution entries whose name is the crop's name letter for letter; entries
\* named "Unused Greenland" in any letter case and entries with a share of zero or
\* less add nothing, in the agroforestry map and in the WEFE allocation alike.
C18_CropArea ==
    AreaCall =>
        LET sites == SitesInScope(call.lab, call.scope_site_name)
        IN  /\ \A crop \in CropKeys \cup DOMAIN call.result :
                   AreaGet(call.result, crop) = CropAreaOver(sites, crop)
            /\ DOMAIN call.result \cap UnusedGreenlandSpellings = {}

\* Site C alone: Maize 25 % + 5 % of 800 m2, maize 10 %, Yam at -20 %, Cotton at 0 %
C18_Witness ==
    /\ AreaCall
    /\ call.scope_site_name = Str("Site C")
    /\ AreaGet(call.result, "Maize") = Q(240, 1)
    /\ AreaGet(call.result, "maize") = Q(80, 1)
    /\ AreaGet(call.result, "Yam") = Zero
    /\ AreaGet(call.result, "Cotton") = Zero


(***************************************************************************)
(* Scope of the crop areas                                                 *)
(***************************************************************************)
DistinctNames(lab_) == Cardinality(SiteNames(lab_.sites)) = Len(lab_.sites)

\* the lab reduced to its sites of one name
OnlyNamed(lab_, site_name) ==
    [lab_ EXCEPT !.sites = SelectSeq(lab_.sites, LAMBDA site : site.name = site_name)]

\* the area of the crop in each site taken alone, added over sites[1..n]
RECURSIVE SumOverSites(_, _, _)
SumOverSites(lab_, crop, n) ==
    IF n = 0 THEN Zero
    ELSE Add(SumOverSites(lab_, crop, n - 1),
             AreaGet(_compute_crop_area_map([lab_ EXCEPT !.sites = <<lab_.sites[n]>>], None), crop))

\* the area of the crop under the scope of each site's name, added over sites[1..n]
RECURSIVE SumOverScopes(_, _, _)
SumOverScopes(lab_, crop, n) ==
    IF n = 0 THEN Zero
    ELSE Add(SumOverScopes(lab_, crop, n - 1),
             AreaGet(_compute_crop_area_map(lab_, Str(lab_.sites[n].name)), crop))

CropAreaMapCall == call.done /\ call.fn = "_compute_crop_area_map"

\* C19: under the scope of one named site the crop areas are those of a lab holding
\* only the sites of that name; under the all-sites scope the area of each crop is the
\* sum of its areas in every site, and when the sites have distinct names it is the
\* sum of its areas under each single-site scope.
C19_ScopeFiltering ==
    CropAreaMapCall =>
        LET lab_ == call.lab
            scope == call.scope_site_name
        IN  \A crop \in CropKeys \cup DOMAIN call.result :
                LET area == AreaGet(call.result, crop)
                IN  IF scope = None
                    THEN /\ area = SumOverSites(lab_, crop, Len(lab_.sites))
                         /\ DistinctNames(lab_) =>
                                area = SumOverScopes(lab_, crop, Len(lab_.sites))
                    ELSE area = AreaGet(_compute_crop_area_map(OnlyNamed(lab_, scope.val), None), crop)

\* an all-sites call on a lab of several sites with distinct names, where Maize grows
\* on more than the first site
C19_Witness ==
    /\ CropAreaMapCall
    /\ call.scope_site_name = None
    /\ Len(call.lab.sites) >= 2
    /\ DistinctNames(call.lab)
    /\ AreaGet(_compute_crop_area_map(call.lab, Str(call.lab.sites[1].name)), "Maize") # Zero
    /\ AreaGet(call.result, "Maize")
           # AreaGet(_compute_crop_area_map(call.lab, Str(call.lab.sites[1].name)), "Maize")


\* the new self-sufficiency of a row is defined and is the starting one times factor
ScaledBy(row, factor) ==
    row.baseline_ss # None =>
        /\ row.new_ss # None
        /\ row.new_ss.val = Mul(row.baseline_ss.val, factor)

\* C20: the new self-sufficiency is computed from the weekly yield times
\* (1 + increase_percent / 100) in the preview and times the effective multiplier in
\* the aggregated view, the other inputs unchanged: whenever the starting
\* self-sufficiency of a row is defined, the new one is defined and equals the starting
\* value times that factor.
C20_NewIsBaselineTimesFactor ==
    LET rows == agg_rows
        factor == Compounded(apps, Len(apps))
    IN  /\ \A crop \in DOMAIN rows : ScaledBy(rows[crop], factor)
        /\ \A crop \in selected_crops, t \in site_options(sites_props),
              inc \in ProductivityDraws :
               ScaledBy(PreviewRowOf(crop, t, inc), Add(One, Div(inc, Hundred)))

\* two strategies applied at 10 % and 20 %: the Yam row of the aggregated table shows
\* 1.32 times the starting value, and the preview of a single site at 20 % shows for
\* Maize 1.2 times the starting value of that site
C20_Witness ==
    /\ Len(apps) = 2
    /\ "Yam" \in DOMAIN agg_rows
    /\ agg_rows["Yam"].baseline_ss # None
    /\ agg_rows["Yam"].new_ss # None
    /\ agg_rows["Yam"].new_ss.val = Mul(agg_rows["Yam"].baseline_ss.val, Q(132, 100))
    /\ \E t \in site_options(sites_props) \ {AllSites} :
           LET row == PreviewRowOf("Maize", t, Q(20, 1))
           IN  /\ row.baseline_ss # None
               /\ row.new_ss # None
               /\ row.new_ss.val = Mul(row.baseline_ss.val, Q(6, 5))
               /\ row.baseline_ss # agg_rows["Maize"].baseline_ss


PeriodFreePercent(c) ==
    Mul(Div(Mul(Div(Mul(Div(c.weekly_yield_g.val, Thousand), WeeksPerYear),
                    c.crop_info.space_m2_per_seed.val),
                c.area_m2),
            c.annual_consumption_kg.val),
        Hundred)

\* weeks_per_cycle reaches the floor of 1e-6
AtOrAboveFloor(yield_days) == Le(MinWeeksPerCycle, Div(yield_days.val, Seven))

\* yield periods from one hundredth of a second to a year
PeriodsAboveFloor == {Float(7, 1000000), Float(7, 1), Float(70, 1), Float(365, 1)}

\* C23 as stated: for every valid crop profile the annual yield does not depend on
\* yield_period_days, weeks_per_cycle * cycles_per_year being 52.1429 for every
\* positive yield_period_days, also when weeks_per_cycle is under the floor of 1e-6.
C23_PeriodNeverMatters ==
    ValidSelfSufficiencyCall => call.result.val = PeriodFreePercent(call)

\* C23, amended: for every valid crop profile whose weeks_per_cycle is at least 1e-6
\* the annual yield does not depend on yield_period_days (weeks_per_cycle *
\* cycles_per_year is 52.1429); under the floor the product is weeks_per_cycle *
\* 52.1429 / 1e-6, which is smaller.
C23_PeriodMattersOnlyUnderFloor ==
    ValidSelfSufficiencyCall =>
        IF AtOrAboveFloor(call.crop_info.yield_period_days)
        THEN /\ call.result.val = PeriodFreePercent(call)
             /\ \A days \in PeriodsAboveFloor :
                    _compute_self_sufficiency(
                        "Maize", [call.crop_info EXCEPT !.yield_period_days = days],
                        call.area_m2, call.annual_consumption_kg, call.weekly_yield_g)
                        = call.result
        ELSE /\ call.result.val
                    = Mul(PeriodFreePercent(call),
                          Div(Div(call.crop_info.yield_period_days.val, Seven),
                              MinWeeksPerCycle))
             /\ Below(call.result.val, PeriodFreePercent(call))

C23_Witness ==
    /\ ValidSelfSufficiencyCall
    /\ call.crop_info.yield_period_days = Float(70, 1)
    /\ call.crop_info.space_m2_per_seed = Float(2, 1)
    /\ call.weekly_yield_g = Float(240, 1)
    /\ call.result.val = PeriodFreePercent(call)
    /\ _compute_self_sufficiency("Maize",
                                 [call.crop_info EXCEPT !.yield_period_days = Float(365, 1)],
                                 call.area_m2, call.annual_consumption_kg,
                                 call.weekly_yield_g) = call.result


ApplyThenAggregateCall == call.done /\ call.fn = "aggregate_impacts"

\* the sites file lists no name twice
DistinctSiteNames(props) == Cardinality(SiteNames(props)) = Len(props)

OneMoreApplication(p) ==
    Append(apps, NewApplication(Strategies[1], None, Strategies[1].affected_land_types,
                                Strategies[1].cost_per_sqm_usd, DefaultAssumptions, p))

\* a is at most b, for a > 0
AtMost(a, b) == LET r == Div(b, a) IN r[1] >= r[2]

\* C28: when every productivity_increase_percent of the list is >= 0 the effective
\* multiplier is >= 1, each crop's aggregated new self-sufficiency is at least its
\* starting self-sufficiency when both are defined, and one more application lowers
\* neither the multiplier nor any crop's new self-sufficiency.
C28_NeverLowers ==
    (\A i \in DOMAIN apps : PercentOf(apps[i])[1] >= 0) =>
        LET rows == agg_rows
            multiplier == effective_productivity_multiplier(apps)
        IN  /\ AtMost(One, multiplier)
            /\ \A crop \in DOMAIN rows :
                   (rows[crop].baseline_ss # None /\ rows[crop].new_ss # None)
                       => AtMost(rows[crop].baseline_ss.val, rows[crop].new_ss.val)
            /\ Len(apps) < MaxApps =>
                   \A p \in ProductivityDraws :
                       LET more == OneMoreApplication(p)
                           after == aggregated_rows(more, lab, wefe_crop_enabled)
                       IN  /\ AtMost(multiplier, effective_productivity_multiplier(more))
                           /\ \A crop \in DOMAIN rows :
                                  rows[crop].new_ss # None =>
                                      /\ after[crop].new_ss # None
                                      /\ AtMost(rows[crop].new_ss.val,
                                                after[crop].new_ss.val)

\* one application at 20 %: the Yam row is above its starting value, and a second
\* application at 10 % raises it again
C28_Witness ==
    /\ Len(apps) = 1
    /\ Len(apps) < MaxApps
    /\ PercentOf(apps[1]) = Q(20, 1)
    /\ "Yam" \in DOMAIN agg_rows
    /\ agg_rows["Yam"].baseline_ss # None
    /\ agg_rows["Yam"].new_ss.val # agg_rows["Yam"].baseline_ss.val
    /\ AtMost(agg_rows["Yam"].baseline_ss.val, agg_rows["Yam"].new_ss.val)
    /\ aggregated_rows(OneMoreApplication(Q(10, 1)), lab, wefe_crop_enabled)["Yam"].new_ss.val
           = Mul(agg_rows["Yam"].baseline_ss.val, Q(132, 100))


(***************************************************************************)
(* The WEFE tab                                                            *)
(***************************************************************************)
\* the values a user can type in the share inputs of the page as drawn
ShareEvents ==
    {TypeWater(WaterSources[i], value) : i \in DOMAIN WaterSources, value \in WaterShareInputs}
        \cup {TypeEnergy(EnergySources[i], value) :
                 i \in DOMAIN EnergySources, value \in EnergyShareInputs}

WaterTotal(shares) == shares.groundwater + shares.treated_wastewater + shares.surface_water

EnergyTotal(shares) ==
    shares.gasoline + shares.hydropower + shares.wind + shares.solar + shares.diesel

\* the message goes with a total other than 100, and reports that total
Reports(message, total) ==
    IF total = 100 THEN message = None
    ELSE message # None /\ message.total = total /\ message.level \in {"warning", "error"}

\* C22: when the water or energy shares entered do not total 100, the run shows a
\* validation message and does nothing else about it: the shares are stored as
\* entered, and the rest of the page is computed as it is without the anomaly.
C22_RangeAnomalyOnlyWarns ==
    Drawn =>
        LET plain == render_wefe_analysis(session_state, loaded_lab, loaded_resources, NoEvent)
        IN  \A event \in ShareEvents :
                LET after == render_wefe_analysis(session_state, loaded_lab,
                                                  loaded_resources, event)
                    water == IF event.kind = "water"
                             THEN [wefe_water_shares EXCEPT ![event.name] = event.value]
                             ELSE wefe_water_shares
                    energy == IF event.kind = "energy"
                              THEN [wefe_energy_shares EXCEPT ![event.name] = event.value]
                              ELSE wefe_energy_shares
                IN  /\ after.wefe_water_shares = water
                    /\ after.wefe_energy_shares = energy
                    /\ Reports(after.wefe_shown.water_message, WaterTotal(water))
                    /\ Reports(after.wefe_shown.energy_message, EnergyTotal(energy))
                    /\ after.wefe_shown.rendered
                    /\ after.wefe_shown.defaults_map = plain.wefe_shown.defaults_map
                    /\ after.wefe_crop_enabled = plain.wefe_crop_enabled
                    /\ after.wefe_crop_self_sufficiency = plain.wefe_crop_self_sufficiency

\* water shares of 60 + 60 stored and reported as 120, energy shares of 50 stored and
\* reported as 50, the crop defaults computed all the same
C22_Witness ==
    /\ wefe_water_shares.groundwater = 60
    /\ wefe_water_shares.treated_wastewater = 60
    /\ wefe_shown.water_message = [level |-> "error", total |-> 120]
    /\ wefe_energy_shares.solar = 50
    /\ wefe_shown.energy_message = [level |-> "warning", total |-> 50]
    /\ wefe_shown.defaults_map["Maize"].status = "computed"
    /\ wefe_crop_self_sufficiency["Maize"] = 100


(***************************************************************************)
(* C24: after any sequence of runs of the WEFE tab and edits of its        *)
(* widgets, every value stored in wefe_crop_self_sufficiency is an integer *)
(* from 0 to 100, also for a crop whose computed default is above 100.     *)
(***************************************************************************)
C24_StoredPercentInRange ==
    \A name \in DOMAIN wefe_crop_self_sufficiency :
        wefe_crop_self_sufficiency[name] \in 0..100

\* the default shown for the crop in the last run, when it was computed
ShownDefault(name) ==
    IF /\ wefe_shown.rendered
       /\ name \in DOMAIN wefe_shown.defaults_map
       /\ wefe_shown.defaults_map[name].status = "computed"
    THEN wefe_shown.defaults_map[name].default_percent.val
    ELSE Zero

\* Maize's default is above 100 and 100 is stored for it, next to a value the user typed
C24_Witness ==
    /\ Below(Hundred, ShownDefault("Maize"))
    /\ "Maize" \in DOMAIN wefe_crop_self_sufficiency
    /\ wefe_crop_self_sufficiency["Maize"] = 100
    /\ "Yam" \in DOMAIN wefe_crop_self_sufficiency
    /\ wefe_crop_self_sufficiency["Yam"] = 40


(***************************************************************************)
(* C27: an application is appended only in a run in which the strategies   *)
(* loaded, the lab and its resources loaded, and some crop is enabled in   *)
(* wefe_crop_enabled; in every other run the list does not grow.           *)
(***************************************************************************)
ApplyAvailable == files.strategies /\ files.lab /\ selected_crops # {}

C27_ApplyOnlyWhenAvailable ==
    [][Len(agro_applied_strategies') > Len(agro_applied_strategies) => ApplyAvailable]_vars

\* two applications in the list, every file on disk, Yam the only crop ticked
C27_Witness ==
    /\ Len(agro_applied_strategies) = 2
    /\ files = AllFiles
    /\ selected_crops = {"Yam"}


(***************************************************************************)
(* C29: the default-enable step of the WEFE tab enables a crop only when   *)
(* the crop has a positive share in the crop_distribution of some site and *)
(* has no entry in wefe_crop_enabled; a crop that has an entry keeps it in *)
(* every run in which its checkbox is not clicked, so a crop the user      *)
(* unticked is not enabled again by the defaults.                          *)
(***************************************************************************)
InDistribution(crop) ==
    \E i \in DOMAIN lab.sites :
        \E j \in DOMAIN lab.sites[i].crop_distribution :
            /\ lab.sites[i].crop_distribution[j].name = crop
            /\ lab.sites[i].crop_distribution[j].green_share_percent[1] > 0

HasEntry(crop) == crop \in DOMAIN wefe_crop_enabled

C29_DefaultsNeverOverride ==
    [][\A crop \in CropNames :
           ~ClickCrop(crop) =>
               /\ HasEntry(crop) =>
                      /\ crop \in DOMAIN wefe_crop_enabled'
                      /\ wefe_crop_enabled'[crop] = wefe_crop_enabled[crop]
               /\ (~HasEntry(crop) /\ EnabledGet(wefe_crop_enabled', crop)) =>
                      InDistribution(crop)]_vars

\* both food crops grow on the lab's sites and both are unticked after a run: Maize
\* by the user, Yam since a first run on a lab that did not list it
C29_Witness ==
    /\ Drawn
    /\ InDistribution("Maize") /\ InDistribution("Yam")
    /\ HasEntry("Maize") /\ ~wefe_crop_enabled["Maize"]
    /\ HasEntry("Yam") /\ ~wefe_crop_enabled["Yam"]
    /\ "Yam" \notin DOMAIN wefe_crop_self_sufficiency


(***************************************************************************)
(* C30: calculate_self_sufficiency writes a crop's prefilled value into    *)
(* wefe_crop_self_sufficiency only when the crop is enabled, its default   *)
(* is computed, and nothing or 0 is stored for it; a stored value other    *)
(* than 0 is left as it is; a crop that is not enabled, or whose default   *)
(* is undefined, is in the returned map with status 'n/a' and              *)
(* default_percent None, and nothing is written for it.                    *)
(***************************************************************************)
PrefillCall == call.done /\ call.fn = "wefe_analysis.calculate_self_sufficiency"

Written(crop) ==
    IF crop \in DOMAIN call.stored
    THEN crop \notin DOMAIN call.stored_after \/ call.stored_after[crop] # call.stored[crop]
    ELSE crop \in DOMAIN call.stored_after

Computed(crop) ==
    /\ crop \in DOMAIN call.result
    /\ call.result[crop].status = "computed"
    /\ call.result[crop].default_percent.kind = "float"

ReportedNotApplicable(crop) ==
    /\ crop \in DOMAIN call.result
    /\ call.result[crop] = [default_percent |-> None, status |-> "n/a"]

\* the writes: only over nothing or 0, only for an enabled crop with a computed default
PrefillFrame(crop) ==
    /\ Written(crop) =>
           /\ EnabledGet(call.wefe_crop_enabled, crop)
           /\ Computed(crop)
           /\ StoredGet(call.stored, crop) = 0
           /\ call.stored_after[crop] \in 0..100
    /\ (crop \in DOMAIN call.stored /\ call.stored[crop] # 0) => ~Written(crop)

NotApplicableFrame(crop) ==
    (~EnabledGet(call.wefe_crop_enabled, crop) \/ ~Computed(crop)) =>
        ReportedNotApplicable(crop) /\ ~Written(crop)

StartingAllSites(crop) ==
    LET info == InfoGet(_load_crop_info_map, crop)
    IN  _compute_self_sufficiency(crop, info,
                                  AreaGet(_compute_crop_area_map(call.lab, None), crop),
                                  ConsumptionGet(crop), info.average_yield_g_per_week)

\* default_percent of the WEFE tab; a crop reported 'n/a' has None
WefeDefault(crop) == call.result[crop].default_percent

EnabledInCall == {crop \in CropNames : EnabledGet(call.wefe_crop_enabled, crop)}

C26_WefeDefaultIsAllSitesBaseline ==
    (PrefillCall /\ call.lab # None) =>
        \A crop \in EnabledInCall :
            /\ crop \in DOMAIN call.result
            /\ WefeDefault(crop) = StartingAllSites(crop)
            /\ (call.result[crop].status = "n/a") <=> (StartingAllSites(crop) = None)

\* a lab that lists Maize twice and in lower case and gives Yam no land: Maize has
\* the same number on both tabs, Yam and Cotton are undefined on both
C26_Witness ==
    /\ PrefillCall
    /\ call.lab = [sites |-> <<SiteD, SiteC, SiteB>>]
    /\ EnabledInCall = CropNames
    /\ WefeDefault("Maize") = Float(15121441, 8500)
    /\ StartingAllSites("Maize") = Float(15121441, 8500)
    /\ WefeDefault("Yam") = None /\ StartingAllSites("Yam") = None
    /\ WefeDefault("Cotton") = None /\ StartingAllSites("Cotton") = None

=========================================================================
